---- MODULE Spec2Model ----
(***************************************************************************)
(* Desired-state adjustment and enforcement engine of the autoscaling      *)
(* simulator: GeneralizedDelta.enforce / till_full_enforcement (with the   *)
(* enforcement cache) and the Adjuster control loop (cooldown, selection   *)
(* between the addition and the substitution plan, returned timeline).     *)
(* Further components: the Placer and its strategies, the score            *)
(* calculator and the registries, PlatformState and StateDuration with the *)
(* scores of the two options; the longest-living-first queue of the        *)
(* buffers, the seasonal load model, the requests processor and the sync   *)
(* period of the scaling policy.                                           *)
(* Timestamps and durations are integers (one unit = one minute).          *)
(***************************************************************************)
EXTENDS Integers, Sequences, FiniteSets, TLC

VARIABLES
    \* ---- GeneralizedDelta and the scaling model it is enforced against ----
    gd,                  \* the GeneralizedDelta: container_group_delta, entities_group_delta
    scaling_model,       \* booting / termination durations of the node type and of the services
    cached_enforcement,  \* GeneralizedDelta.cached_enforcement: timestamp -> new_deltas
    lastCall,            \* the most recent enforce / till_full_enforcement call and its outcome
    \* ---- Adjuster.adjust_platform_state ----
    cur_timestamp,
    last_scheduled_scaling_action_ts,
    cooldown_period,
    timeline_of_unmet_changes,   \* timestamps of the unmet-change events, in the order next() yields them
    unmet_pos,                   \* how many events next() has yielded so far
    ts_of_unmet_change,          \* loop variable (NoTs when next() returned None)
    timeline_of_deltas,          \* DeltaTimeline.timeline: set of written [ts, delta, event]
    updated_at_least_once,       \* DeltaTimeline.updated_at_least_once
    processed,                   \* timestamps of the events the loop body has completed, in order
    lastIteration,               \* inputs and writes of the loop iteration just completed
    pc,                          \* position inside adjust_platform_state
    adjust_result,               \* value returned by adjust_platform_state
    \* ---- Placer ----
    placer,              \* the Placer object: placement_hint, cached_placement_options
    placerCall,          \* the most recent Placer call (constructor or compute_placement_options)
    \* ---- stateless calls: score calculator, registries, calculator, constructor ----
    scoreCall,           \* the most recent PriceScoreCalculator.__call__
    registryCall,        \* the most recent Registry.get / Adjuster.get
    calcCall,            \* the most recent DesiredChangeCalculator.__call__
    ctorCall,            \* the most recent GeneralizedDelta(...) construction
    adjuster_Registry,   \* Adjuster._Registry: name -> adjuster class
    \* ---- PlatformState and StateDuration ----
    regions,             \* PlatformState.regions of the state the calls are made on
    stateCall,           \* the most recent PlatformState / StateDuration call
    \* ---- LongestLivingFirstQueue ----
    requests,                \* QueuingDiscipline.requests, leftmost element first
    sorted_times_ascending,  \* LongestLivingFirstQueue.sorted_times_ascending
    queueCall,               \* the most recent call on the queue
    \* ---- SeasonalLoadModel ----
    current_month,
    current_time_unit,
    current_means_split_across_seconds,
    cur_second_in_time_unit,
    current_req_split_across_simulation_steps,
    monthly_vals,            \* the parsed seasonal pattern: month -> time unit -> value
    loadCall,                \* the most recent generate_requests
    \* ---- RequestsProcessor ----
    in_processing_simultaneous,
    out_of_service,          \* RequestsProcessor.out: processing service -> requests
    stat,
    started,                 \* every request handed to start_processing so far
    returned,                \* every request get_processed_for_service has returned, in order
    \* ---- ScalingPolicy ----
    last_sync_timestamp,     \* ScalingPolicy.state.last_sync_timestamp
    sync_period_timedelta,   \* ScalingPolicy.scaling_settings.sync_period_timedelta
    scaling_manager,         \* ScalingPolicy.scaling_manager
    adjust_calls,            \* timestamps platform_model.adjust was called with, in order
    policyCall               \* the most recent reconcile_state

enfVars == <<gd, scaling_model, cached_enforcement, lastCall>>
adjVars == <<cur_timestamp, last_scheduled_scaling_action_ts, cooldown_period,
             timeline_of_unmet_changes, unmet_pos, ts_of_unmet_change,
             timeline_of_deltas, updated_at_least_once, processed,
             lastIteration, pc, adjust_result>>
plcVars == <<placer, placerCall>>
callVars == <<scoreCall, registryCall, calcCall, ctorCall, adjuster_Registry>>
pstVars == <<regions, stateCall>>
queVars == <<requests, sorted_times_ascending, queueCall>>
loadVars == <<current_month, current_time_unit,
              current_means_split_across_seconds, cur_second_in_time_unit,
              current_req_split_across_simulation_steps, monthly_vals, loadCall>>
prcVars == <<in_processing_simultaneous, out_of_service, stat, started, returned>>
polVars == <<last_sync_timestamp, sync_period_timedelta, scaling_manager,
             adjust_calls, policyCall>>
simVars == <<queVars, loadVars, prcVars, polVars>>
coreVars == <<enfVars, adjVars, plcVars, callVars, pstVars>>
vars == <<gd, scaling_model, cached_enforcement, lastCall,
          cur_timestamp, last_scheduled_scaling_action_ts, cooldown_period,
          timeline_of_unmet_changes, unmet_pos, ts_of_unmet_change,
          timeline_of_deltas, updated_at_least_once, processed,
          lastIteration, pc, adjust_result,
          placer, placerCall, scoreCall, registryCall, calcCall, ctorCall,
          adjuster_Registry, regions, stateCall,
          requests, sorted_times_ascending, queueCall,
          current_month, current_time_unit,
          current_means_split_across_seconds, cur_second_in_time_unit,
          current_req_split_across_simulation_steps, monthly_vals, loadCall,
          in_processing_simultaneous, out_of_service, stat, started, returned,
          last_sync_timestamp, sync_period_timedelta, scaling_manager,
          adjust_calls, policyCall>>

\* ---------------------------------------------------------------------------
\* Bounds of the model
\* ---------------------------------------------------------------------------
MaxTs == 2          \* base timestamps passed to enforce: 0..MaxTs
MaxDelay == 3       \* booting / termination durations: 0..MaxDelay
AdjMaxTs == 2       \* timestamps seen by the Adjuster: 0..AdjMaxTs
MaxCooldown == 2    \* cooldown_period: 0..MaxCooldown
MaxEvents == 2      \* length of the timeline of unmet changes
MaxScore == 1       \* joint scores: 0..MaxScore
MaxCapacity == 2    \* capacity of a container type: 1..MaxCapacity
MaxRequirement == 2 \* requirement of one entity instance: 1..MaxRequirement
MaxPrice == 2       \* price per hour of a container type: 1..MaxPrice
MaxDurationH == 2   \* duration scored, in hours: 0..MaxDurationH
MaxContainersCount == 2  \* containers scored: 0..MaxContainersCount
MaxOptions == 2     \* placement options the Placer yields for a region: 0..MaxOptions
MaxGroups == 2      \* containers held by a region: 0..MaxGroups

Services == {"s1", "s2"}

Max(S) == CHOOSE x \in S : \A y \in S : y <= x

\* ---------------------------------------------------------------------------
\* Delta values
\* ---------------------------------------------------------------------------
\* Python None for a container group delta / an entities group delta.
NoContainer == [none |-> TRUE, sign |-> 0, in_change |-> FALSE, virtual |-> FALSE]
NoEntities == [none |-> TRUE, sign |-> 0, services |-> {}]

ContainerGroupDeltas ==
    [none : {FALSE}, sign : {-1, 1}, in_change : BOOLEAN, virtual : BOOLEAN]

EntitiesGroupDeltas ==
    [none : {FALSE}, sign : {-1, 1}, services : SUBSET Services]

\* GeneralizedDelta.__init__: either part may be None, nothing else is checked.
\* (Deltas with a container part and no entities part are left out: what
\* ApplicationScalingModel.delay does with None is not in the sources.)
GeneralizedDelta(container_group_delta, entities_group_delta) ==
    [container_group_delta |-> container_group_delta,
     entities_group_delta |-> entities_group_delta]

GeneralizedDeltas ==
    { GeneralizedDelta(c, e) : c \in ContainerGroupDeltas \cup {NoContainer},
                               e \in EntitiesGroupDeltas }

ScalingModels ==
    [node_booting : 0..MaxDelay, node_termination : 0..MaxDelay,
     service_booting : [Services -> 0..MaxDelay],
     service_termination : [Services -> 0..MaxDelay]]

\* ContainerGroupDelta.copy(): an independent object with the same fields.
CopyContainerDelta(d) == d

\* NodeGroupDelta.enforce(): the same change, no longer in change.
EnforceNodeGroupDelta(d) == [d EXCEPT !.in_change = FALSE]

\* (mutant) the delta handed back is still in change
PlatformDelay_KeepsInChange(sm, node_group_delta) ==
    IF node_group_delta.in_change
    THEN [delay |-> IF node_group_delta.sign < 0 THEN sm.node_termination
                                                ELSE sm.node_booting,
          delta |-> node_group_delta]
    ELSE [delay |-> 0, delta |-> NoContainer]

\* PlatformScalingModel.delay
PlatformDelay(sm, node_group_delta) ==
    IF node_group_delta.in_change
    THEN [delay |-> IF node_group_delta.sign < 0 THEN sm.node_termination
                                                ELSE sm.node_booting,
          delta |-> EnforceNodeGroupDelta(node_group_delta)]
    ELSE [delay |-> 0, delta |-> NoContainer]

\* ApplicationScalingModel.delay: the entities of the delta grouped by their
\* service-specific delay (termination duration for a negative change,
\* booting duration otherwise): delay -> EntitiesGroupDelta.
ServiceDelay(sm, sign, s) ==
    IF sign < 0 THEN sm.service_termination[s] ELSE sm.service_booting[s]

ApplicationDelay(sm, egd) ==
    LET delays == { ServiceDelay(sm, egd.sign, s) : s \in egd.services }
    IN [d \in delays |->
          [none |-> FALSE, sign |-> egd.sign,
           services |-> { s \in egd.services : ServiceDelay(sm, egd.sign, s) = d }]]

\* ---------------------------------------------------------------------------
\* GeneralizedDelta.enforce
\* ---------------------------------------------------------------------------
\* (mutant) the entity delays are not taken into account on scale down
MaxEntityDelay_Ignored(sign, entities_by_delays) == 0

\* lines 80-84 / 74: the largest entity delay, used on scale down only
MaxEntityDelay(sign, entities_by_delays) ==
    IF sign < 0 /\ DOMAIN entities_by_delays # {}
    THEN Max(DOMAIN entities_by_delays)
    ELSE 0

\* (mutant) the entities do not wait for the container on scale up
DelayFromContainers_NotWaited(sign, container_group_delay) == 0

\* (mutant) the entities wait for the container on scale down too
DelayFromContainers_AlwaysWaited(sign, container_group_delay) == container_group_delay

\* lines 85-87 / 73: the container delay the entities wait for, on scale up only
DelayFromContainers(sign, container_group_delay) ==
    IF sign > 0 THEN container_group_delay ELSE 0

\* (mutant) the entity entries are paired with an unmarked copy
VirtualContainerDelta_NotMarked(own, enforced) ==
    CopyContainerDelta(IF own.sign < 0 THEN own ELSE enforced)

\* lines 84 / 88 and 103: the container delta the entity entries are paired
\* with: a copy (of the delta itself on scale down, of the enforced delta
\* on scale up) marked virtual.
VirtualContainerDelta(own, enforced) ==
    [CopyContainerDelta(IF own.sign < 0 THEN own ELSE enforced) EXCEPT !.virtual = TRUE]

\* (mutant) a virtual container delta is enforced like any other
Enforceable_IgnoresVirtual(own) == own.in_change

\* line 72
Enforceable(own) == own.in_change /\ ~own.virtual

\* lines 71-105: the mapping timestamp -> list of GeneralizedDelta
NewDeltas(d, sm, delta_timestamp) ==
    LET own == d.container_group_delta
    IN IF ~Enforceable(own)
       THEN <<>>
       ELSE
         LET pd == PlatformDelay(sm, own)
             by_delays == ApplicationDelay(sm, d.entities_group_delta)
             max_entity_delay == MaxEntityDelay(own.sign, by_delays)
             delay_from_containers == DelayFromContainers(own.sign, pd.delay)
             container_ts == delta_timestamp + max_entity_delay + pd.delay
             entity_ts(dl) == delta_timestamp + dl + delay_from_containers
             stamps == {container_ts} \cup { entity_ts(dl) : dl \in DOMAIN by_delays }
             container_entry == GeneralizedDelta(pd.delta, NoEntities)
             entity_entry(dl) ==
                 GeneralizedDelta(VirtualContainerDelta(own, pd.delta), by_delays[dl])
             \* different delays give different timestamps: at most one
             \* entity entry per timestamp, after the container entry
             entity_entries(ts) ==
                 IF \E dl \in DOMAIN by_delays : entity_ts(dl) = ts
                 THEN << entity_entry(CHOOSE dl \in DOMAIN by_delays : entity_ts(dl) = ts) >>
                 ELSE <<>>
         IN [ts \in stamps |->
               (IF ts = container_ts THEN <<container_entry>> ELSE <<>>)
                  \o entity_entries(ts)]

\* (mutant) the memoized result is never used
CacheHit_Never(cache, delta_timestamp) == FALSE

\* line 67: a memoized result is returned as it is
CacheHit(cache, delta_timestamp) == delta_timestamp \in DOMAIN cache

\* (mutant) line 70 missing: earlier entries stay in the cache
CacheAfterCompute_Keeping(cache, delta_timestamp, new_deltas) ==
    [ts \in DOMAIN cache \cup {delta_timestamp} |->
        IF ts = delta_timestamp THEN new_deltas ELSE cache[ts]]

\* lines 70 and 107: the cache after a computation for delta_timestamp
CacheAfterCompute(cache, delta_timestamp, new_deltas) ==
    [ts \in {delta_timestamp} |-> new_deltas]

\* line 72 on a delta without a container part: AttributeError on None
EnforceRaises(d) == d.container_group_delta.none

\* repeat: the call before was the same operation with the same timestamp;
\* evicted: the timestamps the call removed from the cache;
\* recomputed: the call built new_deltas anew (new objects)
NoCall == [op |-> "none", ts |-> 0, raised |-> FALSE, recomputed |-> FALSE,
           new_deltas |-> <<>>, duration |-> 0, evicted |-> {},
           repeat |-> FALSE]

\* The outcome of enforce(delta_timestamp) on the current state.
EnforceOutcome(delta_timestamp) ==
    IF CacheHit(cached_enforcement, delta_timestamp)
    THEN [raised |-> FALSE, recomputed |-> FALSE,
          new_deltas |-> cached_enforcement[delta_timestamp],
          cache |-> cached_enforcement]
    ELSE IF EnforceRaises(gd)
    THEN [raised |-> TRUE, recomputed |-> FALSE, new_deltas |-> <<>>,
          cache |-> <<>>]
    ELSE LET nd == NewDeltas(gd, scaling_model, delta_timestamp)
         IN [raised |-> FALSE, recomputed |-> TRUE, new_deltas |-> nd,
             cache |-> CacheAfterCompute(cached_enforcement, delta_timestamp, nd)]

\* (mutant) the duration is taken up to the first entry of the schedule
TimeUntilEnforcement_UpToFirstEntry(new_deltas, delta_timestamp) ==
    IF DOMAIN new_deltas # {}
    THEN (CHOOSE x \in DOMAIN new_deltas : \A y \in DOMAIN new_deltas : x <= y)
            - delta_timestamp
    ELSE 0

\* lines 46-50 of till_full_enforcement
TimeUntilEnforcement(new_deltas, delta_timestamp) ==
    IF DOMAIN new_deltas # {}
    THEN Max(DOMAIN new_deltas) - delta_timestamp
    ELSE 0

Enforce(t) ==
    LET o == EnforceOutcome(t)
    IN /\ cached_enforcement' = o.cache
       /\ lastCall' = [op |-> "enforce", ts |-> t, raised |-> o.raised,
                       recomputed |-> o.recomputed, new_deltas |-> o.new_deltas,
                       duration |-> 0,
                       evicted |-> DOMAIN cached_enforcement \ DOMAIN o.cache,
                       repeat |-> (lastCall.op = "enforce" /\ lastCall.ts = t)]
       /\ UNCHANGED <<gd, scaling_model>>
       /\ UNCHANGED <<adjVars, plcVars, callVars, pstVars, simVars>>

TillFullEnforcement(t) ==
    LET o == EnforceOutcome(t)
    IN /\ cached_enforcement' = o.cache
       /\ lastCall' = [op |-> "till_full_enforcement", ts |-> t, raised |-> o.raised,
                       recomputed |-> o.recomputed, new_deltas |-> o.new_deltas,
                       duration |-> IF o.raised THEN 0
                                    ELSE TimeUntilEnforcement(o.new_deltas, t),
                       evicted |-> DOMAIN cached_enforcement \ DOMAIN o.cache,
                       repeat |-> (lastCall.op = "till_full_enforcement" /\ lastCall.ts = t)]
       /\ UNCHANGED <<gd, scaling_model>>
       /\ UNCHANGED <<adjVars, plcVars, callVars, pstVars, simVars>>

EnforceCall == \E t \in 0..MaxTs : Enforce(t)
TillFullEnforcementCall == \E t \in 0..MaxTs : TillFullEnforcement(t)

\* ---------------------------------------------------------------------------
\* Adjuster.adjust_platform_state
\* ---------------------------------------------------------------------------
NoTs == -1    \* Python None for a timestamp

StateScores == [is_worst : BOOLEAN, joint_score : 0..MaxScore]
NoScore == [is_worst |-> FALSE, joint_score |-> 0]

\* Strictly increasing sequences of timestamps: the unmet-change events the
\* TimelineOfDesiredServicesChanges yields, one combined change per timestamp.
RECURSIVE SortedSeq(_)
SortedSeq(S) ==
    IF S = {} THEN <<>>
    ELSE LET m == CHOOSE x \in S : \A y \in S : x <= y
         IN <<m>> \o SortedSeq(S \ {m})

UnmetChangeTimelines ==
    { SortedSeq(S) : S \in { T \in SUBSET (0..AdjMaxTs) : Cardinality(T) <= MaxEvents } }

\* TimelineOfDesiredServicesChanges.next(): the next event, None when exhausted
NextUnmetChange(timeline, pos) ==
    IF pos < Len(timeline) THEN timeline[pos + 1] ELSE NoTs

\* DeltaTimeline.add_state_delta: the delta is recorded at the timestamp
AddStateDelta(timeline, ts, delta, event) ==
    timeline \cup {[ts |-> ts, delta |-> delta, event |-> event]}

\* adjuster.py lines 83-89: timestamp of the soft-adjustment delta
SoftAdjustmentTimestamp(ts, last_ts, cooldown) ==
    IF cooldown > 0
    THEN IF last_ts > ts
         THEN last_ts + cooldown
         ELSE IF ts - last_ts > cooldown
              THEN ts + ((ts - last_ts) - cooldown)
              ELSE ts
    ELSE ts

\* (mutant) the final-selection step writes at the timestamp of the event
BestOptionTimestamp_NoShift(ts, last_ts, cooldown) == ts

\* adjuster.py lines 137-143: timestamp of the chosen plan's delta
BestOptionTimestamp(ts, last_ts, cooldown) ==
    IF cooldown > 0
    THEN IF last_ts > ts
         THEN last_ts + cooldown
         ELSE IF ts - last_ts > cooldown
              THEN ts + ((ts - last_ts) - cooldown)
              ELSE ts
    ELSE ts

\* (mutant) the infeasible plan is the one written
ChosenDelta_WorstWritten(score_addition, score_substitution) ==
    IF score_addition.is_worst THEN "addition"
    ELSE IF score_substitution.is_worst THEN "substitution"
    ELSE IF score_addition.joint_score > score_substitution.joint_score
         THEN "addition"
         ELSE "substitution"

\* (mutant) >= instead of >: a tie goes to the addition plan
ChosenDelta_TieToAddition(score_addition, score_substitution) ==
    IF score_addition.is_worst THEN "substitution"
    ELSE IF score_substitution.is_worst THEN "addition"
    ELSE IF score_addition.joint_score >= score_substitution.joint_score
         THEN "addition"
         ELSE "substitution"

\* adjuster.py lines 145-151: which plan's delta is written
ChosenDelta(score_addition, score_substitution) ==
    IF score_addition.is_worst THEN "substitution"
    ELSE IF score_substitution.is_worst THEN "addition"
    ELSE IF score_addition.joint_score > score_substitution.joint_score
         THEN "addition"
         ELSE "substitution"

\* (mutant) line 60 missing: every event is handled
Handled_Always(ts, cur) == TRUE

\* adjuster.py line 60: events before cur_timestamp are not handled
Handled(ts, cur) == ts >= cur

\* (mutant) line 74 indented into the `if` of line 60
AdvancesAfter_OnlyIfHandled(ts, cur) == ts >= cur

\* adjuster.py line 74 is outside the `if` of line 60: next() is called at
\* the end of every iteration
AdvancesAfter(ts, cur) == TRUE

\* (mutant) the timeline is returned whether or not it was written
ReturnValue_AlwaysTimeline(updated) == "timeline"

\* adjuster.py line 76
ReturnValue(updated) == IF updated THEN "timeline" ELSE "None"

NoIteration == [event |-> 0, ts |-> NoTs, handled |-> FALSE, evaluated |-> FALSE,
                soft_ts |-> NoTs, best_ts |-> NoTs,
                score_addition |-> NoScore, score_substitution |-> NoScore]

\* lines 50-56: the timelines are built and the first event is requested
AdjustStart ==
    /\ pc = "idle"
    /\ timeline_of_deltas' = {}
    /\ updated_at_least_once' = FALSE
    /\ ts_of_unmet_change' = NextUnmetChange(timeline_of_unmet_changes, unmet_pos)
    /\ unmet_pos' = unmet_pos + 1
    /\ pc' = "while"
    /\ UNCHANGED <<cur_timestamp, last_scheduled_scaling_action_ts, cooldown_period,
                   timeline_of_unmet_changes, processed, lastIteration, adjust_result>>
    /\ UNCHANGED <<enfVars, plcVars, callVars, pstVars, simVars>>

\* lines 58-72: one iteration of the loop body for the current event.
\* residual: whether compute_soft_adjustment leaves unmet change;
\* the two scores are what PSO returns for the two plans.
LoopBody ==
    /\ pc = "while"
    /\ ts_of_unmet_change # NoTs
    /\ \E residual \in BOOLEAN, score_addition, score_substitution \in StateScores :
         LET ts == ts_of_unmet_change
             event == unmet_pos
             handled == Handled(ts, cur_timestamp)
             evaluated == handled /\ residual
             soft_ts == SoftAdjustmentTimestamp(ts, last_scheduled_scaling_action_ts,
                                                cooldown_period)
             best_ts == BestOptionTimestamp(ts, last_scheduled_scaling_action_ts,
                                            cooldown_period)
             after_soft == AddStateDelta(timeline_of_deltas, soft_ts, "soft", event)
             after_best == AddStateDelta(after_soft, best_ts,
                                         ChosenDelta(score_addition, score_substitution),
                                         event)
         IN /\ (~evaluated => score_addition = NoScore /\ score_substitution = NoScore)
            /\ (~handled => ~residual)
            /\ timeline_of_deltas' = IF evaluated THEN after_best
                                     ELSE IF handled THEN after_soft
                                     ELSE timeline_of_deltas
            /\ updated_at_least_once' = (updated_at_least_once \/ handled)
            /\ lastIteration' =
                 [event |-> event, ts |-> ts, handled |-> handled, evaluated |-> evaluated,
                  soft_ts |-> IF handled THEN soft_ts ELSE NoTs,
                  best_ts |-> IF evaluated THEN best_ts ELSE NoTs,
                  score_addition |-> score_addition,
                  score_substitution |-> score_substitution]
    /\ processed' = Append(processed, ts_of_unmet_change)
    /\ pc' = "next"
    /\ UNCHANGED <<cur_timestamp, last_scheduled_scaling_action_ts, cooldown_period,
                   timeline_of_unmet_changes, unmet_pos, ts_of_unmet_change, adjust_result>>
    /\ UNCHANGED <<enfVars, plcVars, callVars, pstVars, simVars>>

\* line 74: the next event is requested
LoopAdvance ==
    /\ pc = "next"
    /\ IF AdvancesAfter(ts_of_unmet_change, cur_timestamp)
       THEN /\ ts_of_unmet_change' = NextUnmetChange(timeline_of_unmet_changes, unmet_pos)
            /\ unmet_pos' = unmet_pos + 1
       ELSE UNCHANGED <<ts_of_unmet_change, unmet_pos>>
    /\ lastIteration' = NoIteration
    /\ pc' = "while"
    /\ UNCHANGED <<cur_timestamp, last_scheduled_scaling_action_ts, cooldown_period,
                   timeline_of_unmet_changes, timeline_of_deltas, updated_at_least_once,
                   processed, adjust_result>>
    /\ UNCHANGED <<enfVars, plcVars, callVars, pstVars, simVars>>

\* lines 58 and 76: the loop ends when next() returned None
AdjustReturn ==
    /\ pc = "while"
    /\ ts_of_unmet_change = NoTs
    /\ adjust_result' = ReturnValue(updated_at_least_once)
    /\ pc' = "done"
    /\ UNCHANGED <<cur_timestamp, last_scheduled_scaling_action_ts, cooldown_period,
                   timeline_of_unmet_changes, unmet_pos, ts_of_unmet_change,
                   timeline_of_deltas, updated_at_least_once, processed, lastIteration>>
    /\ UNCHANGED <<enfVars, plcVars, callVars, pstVars, simVars>>

\* ---------------------------------------------------------------------------
\* Placer (placer.py)
\* ---------------------------------------------------------------------------
Containers == {"small", "large"}

\* lines 36-40
placement_hints == {"specialized", "balanced", "existing_mixture"}

\* hints a caller may pass to the constructor: the supported ones, the name
\* of the strategy that is not a hint, and an unknown name
PlacementHintInputs == placement_hints \cup {"shared", "cheapest"}

\* the empty dict of placement options
EmptyOptions == [c \in {} |-> <<>>]

\* the empty dict of instance counts
EmptyInstances == [e \in {} |-> 0]

\* lines 15-22: capacity_taken is `used` units out of the `of` units of the
\* container type (the fraction used / of)
InContainerPlacement(container_type, used, capacity, placed_entities) ==
    [container_type |-> container_type,
     capacity_taken |-> [used |-> used, of |-> capacity],
     placed_entities |-> placed_entities]

\* scaled_entity_instance_requirements_by_entity: entity -> requirement of
\* one instance. Dicts keep insertion order; the entities are inserted in
\* the order of EntityOrder.
EntityOrder == <<"s1", "s2">>
Position(e) == CHOOSE i \in 1..Len(EntityOrder) : EntityOrder[i] = e
RequirementSets == UNION { [S -> 1..MaxRequirement] : S \in SUBSET Services }

\* container_for_scaled_entities_types: container type -> capacity
Catalogs == UNION { [C -> 1..MaxCapacity] : C \in SUBSET Containers }

\* the three optional dynamic inputs: TRUE when the argument is supplied
DynamicInputs == [current_placement : BOOLEAN, performance : BOOLEAN,
                  resource_utilization : BOOLEAN]
NoDynamicInputs(dyn) ==
    ~dyn.current_placement /\ ~dyn.performance /\ ~dyn.resource_utilization

\* line 135, container_info.takes_capacity: one instance fits when its
\* requirement is within the capacity of the container type
Fits(requirement, capacity) == requirement <= capacity

\* lines 155, SystemCapacity.is_exhausted: the capacity would be exceeded
IsExhausted(cumulative, capacity) == cumulative > capacity

\* lines 140-141: reversed(sorted(..., key = capacity taken)): decreasing
\* capacity taken; sorted is stable, so equal keys come out in the reverse
\* of the insertion order
Precedes(req, a, b) ==
    req[a] > req[b] \/ (req[a] = req[b] /\ Position(a) > Position(b))

\* lines 133-141
SortedFitting(req, capacity) ==
    LET fit == { e \in DOMAIN req : Fits(req[e], capacity) }
        n == Cardinality(fit)
    IN CHOOSE s \in [1..n -> fit] :
          \A i \in 1..n, j \in 1..n : i < j => Precedes(req, s[i], s[j])

\* lines 155-157: the while loop
RECURSIVE FillUp(_, _, _, _)
FillUp(cumulative, count, requirement, capacity) ==
    IF IsExhausted(cumulative, capacity)
    THEN [cumulative |-> cumulative, count |-> count]
    ELSE FillUp(cumulative + requirement, count + 1, requirement, capacity)

\* lines 154-161: instances_count is not reset between the entities
RECURSIVE PackShared(_, _, _, _, _)
PackShared(further, req, capacity, cumulative, count) ==
    IF further = <<>>
    THEN [cumulative |-> cumulative, instances |-> EmptyInstances]
    ELSE LET e == Head(further)
             filled == FillUp(cumulative, count, req[e], capacity)
             cumulative_capacity == filled.cumulative - req[e]
             instances_count == filled.count - 1
             rest == PackShared(Tail(further), req, capacity,
                                cumulative_capacity, instances_count)
         IN [cumulative |-> rest.cumulative,
             instances |-> (e :> instances_count) @@ rest.instances]

\* lines 124-173
PlaceShared(req, catalog) ==
    LET per_container(c) ==
            LET sorted == SortedFitting(req, catalog[c])
            IN [k \in 1..Len(sorted) |->
                  LET packed == PackShared(SubSeq(sorted, k, Len(sorted)), req,
                                           catalog[c], 0, 0)
                  IN InContainerPlacement(c, packed.cumulative, catalog[c],
                                          packed.instances)]
        with_options == { c \in DOMAIN catalog : Len(per_container(c)) > 0 }
    IN [c \in with_options |-> per_container(c)]

\* lines 116-122
PlaceExistingMixture == EmptyOptions

\* lines 175-202. Lines 194-195 evaluate
\* best_placement_option_so_far.capacity_taken.collapse() on
\* InContainerPlacement(), whose capacity_taken is the int 0 (line 17):
\* AttributeError at the first option. Without any option the name returned
\* at line 202 was never bound: UnboundLocalError.
PlaceBalancedRaises(shared_placement_options) ==
    IF DOMAIN shared_placement_options = {}
    THEN "UnboundLocalError"
    ELSE "AttributeError"

\* lines 204-209: the body is `pass`, the call evaluates to None
PlaceSpecialized == [none |-> TRUE, options |-> EmptyOptions]

\* line 69-70
CacheUsable(cache, dyn) == DOMAIN cache # {} /\ NoDynamicInputs(dyn)

\* lines 52-114. raised: "" or the name of the exception; cache: the value
\* of cached_placement_options after the call; attempted: the strategies
\* that were run.
ComputePlacementOptions(p, req, catalog, dyn) ==
    LET hint == p.placement_hint
        cache == p.cached_placement_options
        Return(options, tried) ==
            [raised |-> "", result |-> options, cache |-> cache,
             from_cache |-> FALSE, attempted |-> tried]
        Raise(exception, tried) ==
            [raised |-> exception, result |-> EmptyOptions, cache |-> cache,
             from_cache |-> FALSE, attempted |-> tried]
        \* lines 112-114
        StoreAndReturn(options, tried) ==
            [raised |-> "", result |-> options, cache |-> options,
             from_cache |-> FALSE, attempted |-> tried]
        \* lines 101-114
        Specialized(options, option_failed, tried) ==
            IF option_failed \/ hint = "specialized"
            THEN LET placed == PlaceSpecialized
                     now == tried \cup {"specialized"}
                 IN IF placed.none
                    THEN Raise("TypeError", now)      \* len(None), line 107
                    ELSE IF DOMAIN placed.options # {}
                         THEN Return(placed.options, now)
                         ELSE StoreAndReturn(placed.options, now)
            ELSE StoreAndReturn(options, tried)
        \* lines 86-99
        Shared(options, option_failed, tried) ==
            IF option_failed \/ hint = "balanced"
            THEN LET shared == PlaceShared(req, catalog)
                     now == tried \cup {"shared"}
                 IN IF hint = "balanced"
                    THEN Raise(PlaceBalancedRaises(shared), now \cup {"balanced"})
                    ELSE IF DOMAIN shared # {}
                         THEN Return(shared, now)
                         ELSE Specialized(shared, TRUE, now)
            ELSE Specialized(options, FALSE, tried)
    IN IF CacheUsable(cache, dyn)
       THEN [raised |-> "", result |-> cache, cache |-> cache,
             from_cache |-> TRUE, attempted |-> {}]
       ELSE IF hint = "existing_mixture"                \* lines 75-84
            THEN IF DOMAIN PlaceExistingMixture # {}
                 THEN Return(PlaceExistingMixture, {"existing_mixture"})
                 ELSE Shared(PlaceExistingMixture, TRUE, {"existing_mixture"})
            ELSE Shared(EmptyOptions, FALSE, {})

NoPlacer == [exists |-> FALSE, placement_hint |-> "",
             cached_placement_options |-> EmptyOptions]

NoPlacerCall ==
    [op |-> "none", hint |-> "", requirements |-> EmptyInstances,
     catalog |-> EmptyInstances,
     dynamic |-> [current_placement |-> FALSE, performance |-> FALSE,
                  resource_utilization |-> FALSE],
     raised |-> "", result |-> EmptyOptions, from_cache |-> FALSE,
     attempted |-> {}]

\* line 45
PlacerInitRaises(placement_hint) == placement_hint \notin placement_hints

\* Placer.__init__, lines 42-50
PlacerInit(placement_hint) ==
    /\ ~placer.exists
    /\ placer' = IF PlacerInitRaises(placement_hint)
                 THEN placer
                 ELSE [exists |-> TRUE, placement_hint |-> placement_hint,
                       cached_placement_options |-> EmptyOptions]
    /\ placerCall' = [NoPlacerCall EXCEPT
                        !.op = "init", !.hint = placement_hint,
                        !.raised = IF PlacerInitRaises(placement_hint)
                                   THEN "ValueError" ELSE ""]
    /\ UNCHANGED <<enfVars, adjVars, callVars, pstVars, simVars>>

\* Placer.compute_placement_options, lines 52-114
ComputePlacementOptionsCall(req, catalog, dyn) ==
    /\ placer.exists
    /\ \E out \in {ComputePlacementOptions(placer, req, catalog, dyn)} :
          /\ placer' = [placer EXCEPT !.cached_placement_options = out.cache]
          /\ placerCall' = [op |-> "compute", hint |-> placer.placement_hint,
                            requirements |-> req, catalog |-> catalog,
                            dynamic |-> dyn, raised |-> out.raised,
                            result |-> out.result,
                            from_cache |-> out.from_cache,
                            attempted |-> out.attempted]
    /\ UNCHANGED <<enfVars, adjVars, callVars, pstVars, simVars>>

PlacerConstruct == \E h \in PlacementHintInputs : PlacerInit(h)
PlacerCompute ==
    \E req \in RequirementSets, catalog \in Catalogs, dyn \in DynamicInputs :
        ComputePlacementOptionsCall(req, catalog, dyn)

PlacerIdle ==
    /\ placer = NoPlacer
    /\ placerCall = NoPlacerCall

\* ---------------------------------------------------------------------------
\* Score calculator and registries (score_calculators.py, adjuster.py)
\* ---------------------------------------------------------------------------
\* a joint score value handed to score_class (the score classes are outside
\* these sources): the price it was built from, not marked infeasible
BuildScore(price) == [none |-> FALSE, is_worst |-> FALSE, value |-> price]
NoScoreValue == [none |-> TRUE, is_worst |-> FALSE, value |-> 0]

\* container_for_scaled_entities_types of the calculator: type -> price_p_h
PriceCatalogs == UNION { [C -> 1..MaxPrice] : C \in SUBSET Containers }

\* (mutant) an unknown container type is let through
ScoreRaises_Never(container_name, catalog) == FALSE

\* score_calculators.py line 47
ScoreRaises(container_name, catalog) == container_name \notin DOMAIN catalog

\* (mutant) the number of containers is left out of the price
PriceScore_PerContainer(catalog, container_name, duration_h, containers_count) ==
    IF ScoreRaises(container_name, catalog)
    THEN [raised |-> "ValueError", score |-> NoScoreValue, price |-> 0]
    ELSE LET price == duration_h * catalog[container_name]
         IN [raised |-> "", score |-> BuildScore(price), price |-> price]

\* score_calculators.py lines 42-53: PriceScoreCalculator.__call__
PriceScore(catalog, container_name, duration_h, containers_count) ==
    IF ScoreRaises(container_name, catalog)
    THEN [raised |-> "ValueError", score |-> NoScoreValue, price |-> 0]
    ELSE LET price_p_h == IF container_name \in DOMAIN catalog
                          THEN catalog[container_name] ELSE 0
             price == duration_h * containers_count * price_p_h
         IN [raised |-> "", score |-> BuildScore(price), price |-> price]

NoScoreCall ==
    [op |-> "none", catalog |-> EmptyInstances, container_name |-> "",
     duration_h |-> 0, containers_count |-> 0,
     raised |-> "", score |-> NoScoreValue, price |-> 0]

\* score_calculators.py lines 61-63
ScoreRegistry == [n \in {"CostMinimizer"} |-> "PriceScoreCalculator"]

\* names looked up in a registry
RegistryNames == {"CostMinimizer", "PriceScoreCalculator", "default"}
AdjusterClasses == {"CostAdjuster", "PerformanceAdjuster"}

\* (mutant) a lookup of an unregistered name does not fail
RegistryGetRaises_Never(registry, name) == FALSE

\* score_calculators.py line 68, adjuster.py line 165
RegistryGetRaises(registry, name) == name \notin DOMAIN registry

\* score_calculators.py lines 65-71, adjuster.py lines 162-168
RegistryGet(registry, name) ==
    IF RegistryGetRaises(registry, name)
    THEN [raised |-> "ValueError", result |-> ""]
    ELSE [raised |-> "",
          result |-> IF name \in DOMAIN registry THEN registry[name] ELSE ""]

NoRegistryCall == [op |-> "none", name |-> "", raised |-> "", result |-> ""]

\* ---------------------------------------------------------------------------
\* DesiredChangeCalculator.__call__ (desired_calc.py)
\* ---------------------------------------------------------------------------
Regions == {"eu", "us"}

\* entities_states as the loop of lines 42-57 sees it: region -> number of
\* placement options the Placer yields for the region
EntitiesStates == UNION { [R -> 0..MaxOptions] : R \in SUBSET Regions }

\* line 50, the optimizer (outside these sources): the selected placement
\* of an empty list of scored options carries the infeasible score
SelectedPlacementIsWorst(options_count) == options_count = 0

\* line 57: scores_per_region[region]; the loop variables are region_name
\* and entities_state, the name region is bound nowhere: NameError in the
\* first iteration of the loop
CalcRaises(entities_states) ==
    IF DOMAIN entities_states # {} THEN "NameError" ELSE ""

\* lines 34-63: is_worst of the returned StateScore (FALSE when nothing is
\* returned)
CalcOutcome(entities_states) ==
    [raised |-> CalcRaises(entities_states),
     is_worst |-> /\ CalcRaises(entities_states) = ""
                  /\ \E r \in DOMAIN entities_states :
                        SelectedPlacementIsWorst(entities_states[r])]

NoCalcCall == [op |-> "none", entities_states |-> EmptyInstances,
               raised |-> "", is_worst |-> FALSE]

\* ---------------------------------------------------------------------------
\* GeneralizedDelta.__init__ (generalized_delta.py lines 16-30)
\* ---------------------------------------------------------------------------
\* constructor arguments: a delta, None, or a value of another type
ContainerArgs ==
    [wrong_type : {FALSE}, value : ContainerGroupDeltas \cup {NoContainer}]
        \cup {[wrong_type |-> TRUE, value |-> NoContainer]}
EntitiesArgs ==
    [wrong_type : {FALSE}, value : EntitiesGroupDeltas \cup {NoEntities}]
        \cup {[wrong_type |-> TRUE, value |-> NoEntities]}

\* lines 20-26
GeneralizedDeltaInitRaises(c, e) == c.wrong_type \/ e.wrong_type

NoCtorCall == [op |-> "none", raised |-> "", constructed |-> FALSE,
               object |-> GeneralizedDelta(NoContainer, NoEntities)]

\* ---------------------------------------------------------------------------
\* The stateless calls as actions; each records the call made last
\* ---------------------------------------------------------------------------
ScoreCall(catalog, container_name, duration_h, containers_count) ==
    LET out == PriceScore(catalog, container_name, duration_h, containers_count)
    IN /\ scoreCall' = [op |-> "score", catalog |-> catalog,
                        container_name |-> container_name,
                        duration_h |-> duration_h,
                        containers_count |-> containers_count,
                        raised |-> out.raised, score |-> out.score,
                        price |-> out.price]
       /\ registryCall' = NoRegistryCall
       /\ calcCall' = NoCalcCall
       /\ ctorCall' = NoCtorCall
       /\ UNCHANGED <<adjuster_Registry, enfVars, adjVars, plcVars, pstVars, simVars>>

\* Registry.get of score_calculators.py
ScoreRegistryGet(name) ==
    LET out == RegistryGet(ScoreRegistry, name)
    IN /\ registryCall' = [op |-> "score_get", name |-> name,
                           raised |-> out.raised, result |-> out.result]
       /\ scoreCall' = NoScoreCall
       /\ calcCall' = NoCalcCall
       /\ ctorCall' = NoCtorCall
       /\ UNCHANGED <<adjuster_Registry, enfVars, adjVars, plcVars, pstVars, simVars>>

\* Adjuster.register, adjuster.py lines 153-160
AdjusterRegister(name, adjuster_class) ==
    /\ adjuster_Registry' =
          [n \in DOMAIN adjuster_Registry \cup {name} |->
              IF n = name THEN adjuster_class ELSE adjuster_Registry[n]]
    /\ registryCall' = [op |-> "adjuster_register", name |-> name,
                        raised |-> "", result |-> adjuster_class]
    /\ scoreCall' = NoScoreCall
    /\ calcCall' = NoCalcCall
    /\ ctorCall' = NoCtorCall
    /\ UNCHANGED <<enfVars, adjVars, plcVars, pstVars, simVars>>

\* Adjuster.get, adjuster.py lines 162-168
AdjusterGet(name) ==
    LET out == RegistryGet(adjuster_Registry, name)
    IN /\ registryCall' = [op |-> "adjuster_get", name |-> name,
                           raised |-> out.raised, result |-> out.result]
       /\ scoreCall' = NoScoreCall
       /\ calcCall' = NoCalcCall
       /\ ctorCall' = NoCtorCall
       /\ UNCHANGED <<adjuster_Registry, enfVars, adjVars, plcVars, pstVars, simVars>>

\* DesiredChangeCalculator.__call__, desired_calc.py lines 34-63
CalcCall(entities_states) ==
    LET out == CalcOutcome(entities_states)
    IN /\ calcCall' = [op |-> "calc", entities_states |-> entities_states,
                       raised |-> out.raised, is_worst |-> out.is_worst]
       /\ scoreCall' = NoScoreCall
       /\ registryCall' = NoRegistryCall
       /\ ctorCall' = NoCtorCall
       /\ UNCHANGED <<adjuster_Registry, enfVars, adjVars, plcVars, pstVars, simVars>>

\* GeneralizedDelta.__init__, generalized_delta.py lines 16-30
GeneralizedDeltaInit(c, e) ==
    /\ ctorCall' = IF GeneralizedDeltaInitRaises(c, e)
                   THEN [NoCtorCall EXCEPT !.op = "init", !.raised = "TypeError"]
                   ELSE [op |-> "init", raised |-> "", constructed |-> TRUE,
                         object |-> GeneralizedDelta(c.value, e.value)]
    /\ scoreCall' = NoScoreCall
    /\ registryCall' = NoRegistryCall
    /\ calcCall' = NoCalcCall
    /\ UNCHANGED <<adjuster_Registry, enfVars, adjVars, plcVars, pstVars, simVars>>

ScoreCalls ==
    \E catalog \in PriceCatalogs, container_name \in Containers,
       duration_h \in 0..MaxDurationH, containers_count \in 0..MaxContainersCount :
        ScoreCall(catalog, container_name, duration_h, containers_count)
ScoreRegistryGets == \E name \in RegistryNames : ScoreRegistryGet(name)
AdjusterRegisters ==
    \E name \in RegistryNames, cl \in AdjusterClasses : AdjusterRegister(name, cl)
AdjusterGets == \E name \in RegistryNames : AdjusterGet(name)
CalcCalls == \E es \in EntitiesStates : CalcCall(es)
GeneralizedDeltaInits ==
    \E c \in ContainerArgs, e \in EntitiesArgs : GeneralizedDeltaInit(c, e)

CallsIdle ==
    /\ scoreCall = NoScoreCall
    /\ registryCall = NoRegistryCall
    /\ calcCall = NoCalcCall
    /\ ctorCall = NoCtorCall
    /\ adjuster_Registry = [n \in {} |-> ""]

\* ---------------------------------------------------------------------------
\* StateDuration (state_duration.py, platform_state.py lines 160-183)
\* ---------------------------------------------------------------------------
RegionNames == {"east", "west"}

\* per-region values: a dict region -> number
EmptyPerRegion == [r \in {} |-> 0]
PerRegion(values) == UNION { [R -> values] : R \in SUBSET RegionNames }

\* state_duration.py lines 10-17. durations_per_region is a dict given by
\* the caller, or (from_single_value) a defaultdict that starts without any
\* key and hands out `single_value` on a lookup by [].
StateDurationOf(durations_per_region) ==
    [from_single_value |-> FALSE, single_value |-> 0,
     durations_per_region |-> durations_per_region]
FromSingleValue(duration) ==
    [from_single_value |-> TRUE, single_value |-> duration,
     durations_per_region |-> EmptyPerRegion]
StateDurations ==
    { StateDurationOf(d) : d \in PerRegion(0..MaxDurationH) }
        \cup { FromSingleValue(d) : d \in 0..MaxDurationH }

\* state_duration.py line 22 / platform_state.py line 180: `region_name in
\* durations`; a membership test does not call the default factory
InDurations(duration, region_name) ==
    region_name \in DOMAIN duration.durations_per_region

\* the duration a lookup by [] yields
DurationOfRegion(duration, region_name) ==
    IF region_name \in DOMAIN duration.durations_per_region
    THEN duration.durations_per_region[region_name]
    ELSE duration.single_value

\* state_duration.py lines 19-24 (durations in hours)
StateDurationMul(duration, state_score) ==
    [r \in { x \in DOMAIN state_score : InDurations(duration, x) } |->
        state_score[r] * DurationOfRegion(duration, r)]

\* platform_state.py lines 171-183: scores_per_region is computed (lines
\* 178-181) and the StateScore returned at line 183 is built from the score
\* class alone
PlatformStateDurationMul(duration, state_score) == EmptyPerRegion

\* ---------------------------------------------------------------------------
\* PlatformState (platform_state.py)
\* ---------------------------------------------------------------------------
\* self.regions: region name -> Region object, a Region being represented by
\* the number of containers it holds
PlatformStates == PerRegion(0..MaxGroups)

\* Region.update_groups / Region += delta: applied to the Region object
UpdateGroups(region, groups_delta) == region + groups_delta

\* lines 96-135 with is_virtual = TRUE. state_to_update.regions is a copy of
\* the dict (line 125) that holds the same Region objects: update_groups at
\* line 129 acts on the object the receiver holds too. receiver: the regions
\* of the receiver after the call; result: those of the returned state.
UpdateVirtually(rgns, deltas) ==
    LET present == DOMAIN deltas \cap DOMAIN rgns
        updated(r) == UpdateGroups(rgns[r], deltas[r])
    IN [raised |-> "",
        receiver |-> [r \in DOMAIN rgns |->
                        IF r \in present THEN updated(r) ELSE rgns[r]],
        result |-> [r \in DOMAIN rgns \cup DOMAIN deltas |->
                        IF r \in present THEN updated(r)
                        ELSE IF r \in DOMAIN rgns THEN rgns[r]
                        ELSE deltas[r]]]                    \* lines 132-133

\* lines 32-45: the loop variable is regional_delta; the name region_name
\* used at lines 42-43 is bound nowhere: NameError for the first regional
\* delta
PlatformStateAdd(rgns, state_delta) ==
    IF DOMAIN state_delta # {}
    THEN [raised |-> "NameError", receiver |-> rgns, result |-> EmptyPerRegion]
    ELSE [raised |-> "", receiver |-> rgns, result |-> rgns]

\* what Region.compute_soft_adjustment leaves unaccommodated in one region:
\* service -> change
UnmetChanges == UNION { [S -> {-1, 1}] : S \in SUBSET Services }
NoUnmet == [r \in {} |-> {}]

\* line 88
UnmetChangePositive(region_unmet) ==
    { <<s, region_unmet[s]>> : s \in { x \in DOMAIN region_unmet : region_unmet[x] > 0 } }

\* lines 85-89, for the regions the loop visits
UnmetScaledEntityAdjustment(unmet_per_region) ==
    [r \in { x \in DOMAIN unmet_per_region : DOMAIN unmet_per_region[x] # {} } |->
        UnmetChangePositive(unmet_per_region[r])]

\* line 79: `for region_name, region in self.regions` iterates the keys of
\* the dict and unpacks each key, a str, into two names: ValueError (for a
\* name of two characters the unpacking passes and the call at line 80 on a
\* str raises AttributeError)
RegionsIterationRaises(rgns) == DOMAIN rgns # {}

\* adjuster.py line 64, `if len(unmet_change) > 0`, on the dict that
\* compute_soft_adjustment returned: the options are evaluated when the dict
\* has an entry
UnmetChangeLeft(unmet) == DOMAIN unmet # {}

\* lines 65-93
ComputeSoftAdjustment(rgns, unmet_per_region) ==
    IF RegionsIterationRaises(rgns)
    THEN [raised |-> "ValueError", unmet |-> NoUnmet]
    ELSE [raised |-> "", unmet |-> UnmetScaledEntityAdjustment(unmet_per_region)]

\* ---------------------------------------------------------------------------
\* Scores of the two options (adjuster.py lines 109-129)
\* ---------------------------------------------------------------------------
\* StateScore + StateScore: region by region
StateScoreAdd(a, b) ==
    [r \in DOMAIN a \cup DOMAIN b |->
        (IF r \in DOMAIN a THEN a[r] ELSE 0) + (IF r \in DOMAIN b THEN b[r] ELSE 0)]

\* Scorer.score_platform_state: the score per hour of the state (one unit
\* per container held by a region) amortised by the StateDuration
ScorePlatformState(rgns, duration) == StateDurationMul(duration, rgns)

\* lines 112-116: what compute_adjustment returned for the unmet demand,
\* plus the score of in_work_state over from_single_value(state_duration)
EvaluateNodesAdditionOption(rgns, pso_score, state_duration) ==
    StateScoreAdd(pso_score, ScorePlatformState(rgns, FromSingleValue(state_duration)))

\* lines 121-127: what compute_adjustment returned for the current services
\* with the unmet demand, plus the score of in_work_state over the duration
\* till_full_enforcement returned (platform_state_delta.py lines 55-60: a
\* StateDuration built on a dict with a key per region of the delta)
EvaluateNodesSubstitutionOption(rgns, pso_score, till_state_substitution) ==
    StateScoreAdd(pso_score,
                  ScorePlatformState(rgns, StateDurationOf(till_state_substitution)))

NoStateCall ==
    [op |-> "none", raised |-> "", before |-> EmptyPerRegion,
     argument |-> EmptyPerRegion, result |-> EmptyPerRegion,
     duration |-> FromSingleValue(0), unmet_per_region |-> NoUnmet,
     unmet |-> NoUnmet, evaluated |-> FALSE,
     pso_addition |-> EmptyPerRegion, pso_substitution |-> EmptyPerRegion,
     till_state_substitution |-> EmptyPerRegion,
     score_addition |-> EmptyPerRegion, score_substitution |-> EmptyPerRegion]

\* A behaviour is a sequence of update_virtually and + calls on the state,
\* in any order, or one call that writes nothing (a product,
\* compute_soft_adjustment, the scores of the options) on the state as
\* constructed.

\* StateDuration.__mul__ of state_duration.py
StateDurationMulCall(duration, state_score) ==
    /\ stateCall' = [NoStateCall EXCEPT
                        !.op = "mul", !.duration = duration,
                        !.argument = state_score,
                        !.result = StateDurationMul(duration, state_score)]
    /\ UNCHANGED regions
    /\ UNCHANGED <<enfVars, adjVars, plcVars, callVars, simVars>>

\* StateDuration.__mul__ of platform_state.py
PlatformStateDurationMulCall(duration, state_score) ==
    /\ ~duration.from_single_value
    /\ stateCall' = [NoStateCall EXCEPT
                        !.op = "mul_h", !.duration = duration,
                        !.argument = state_score,
                        !.result = PlatformStateDurationMul(duration, state_score)]
    /\ UNCHANGED regions
    /\ UNCHANGED <<enfVars, adjVars, plcVars, callVars, simVars>>

\* PlatformState.update_virtually
UpdateVirtuallyCall(deltas) ==
    /\ \A r \in DOMAIN deltas \cap DOMAIN regions : regions[r] + deltas[r] <= MaxGroups
    /\ LET out == UpdateVirtually(regions, deltas)
       IN /\ regions' = out.receiver
          /\ stateCall' = [NoStateCall EXCEPT
                              !.op = "update_virtually", !.before = regions,
                              !.argument = deltas, !.result = out.result]
    /\ UNCHANGED <<enfVars, adjVars, plcVars, callVars, simVars>>

\* PlatformState.__add__
PlatformStateAddCall(state_delta) ==
    /\ LET out == PlatformStateAdd(regions, state_delta)
       IN /\ regions' = out.receiver
          /\ stateCall' = [NoStateCall EXCEPT
                              !.op = "add", !.raised = out.raised,
                              !.before = regions, !.argument = state_delta,
                              !.result = out.result]
    /\ UNCHANGED <<enfVars, adjVars, plcVars, callVars, simVars>>

\* PlatformState.compute_soft_adjustment
ComputeSoftAdjustmentCall(unmet_per_region) ==
    /\ LET out == ComputeSoftAdjustment(regions, unmet_per_region)
       IN stateCall' = [NoStateCall EXCEPT
                           !.op = "compute_soft_adjustment",
                           !.raised = out.raised, !.before = regions,
                           !.unmet_per_region = unmet_per_region,
                           !.unmet = out.unmet,
                           !.evaluated = (out.raised = ""
                                            /\ UnmetChangeLeft(out.unmet))]
    /\ UNCHANGED regions
    /\ UNCHANGED <<enfVars, adjVars, plcVars, callVars, simVars>>

\* Adjuster._evaluate_nodes_addition_option and
\* Adjuster._evaluate_nodes_substitution_option for one unmet change, on
\* in_work_state = the state
EvaluateOptionsCall(pso_addition, pso_substitution, state_duration, till_state_substitution) ==
    /\ stateCall' = [NoStateCall EXCEPT
                        !.op = "evaluate_options", !.before = regions,
                        !.duration = FromSingleValue(state_duration),
                        !.pso_addition = pso_addition,
                        !.pso_substitution = pso_substitution,
                        !.till_state_substitution = till_state_substitution,
                        !.score_addition =
                            EvaluateNodesAdditionOption(regions, pso_addition,
                                                        state_duration),
                        !.score_substitution =
                            EvaluateNodesSubstitutionOption(regions, pso_substitution,
                                                            till_state_substitution)]
    /\ UNCHANGED regions
    /\ UNCHANGED <<enfVars, adjVars, plcVars, callVars, simVars>>

StateDurationMuls ==
    /\ stateCall.op = "none"
    /\ \E duration \in StateDurations, state_score \in PerRegion(0..MaxScore) :
         StateDurationMulCall(duration, state_score)
PlatformStateDurationMuls ==
    /\ stateCall.op = "none"
    /\ \E duration \in StateDurations, state_score \in PerRegion(0..MaxScore) :
         PlatformStateDurationMulCall(duration, state_score)
UpdateVirtuallyCalls ==
    /\ stateCall.op \in {"none", "update_virtually", "add"}
    /\ \E deltas \in PerRegion(1..MaxGroups) : UpdateVirtuallyCall(deltas)
PlatformStateAddCalls ==
    /\ stateCall.op \in {"none", "update_virtually", "add"}
    /\ \E state_delta \in PerRegion(1..MaxGroups) : PlatformStateAddCall(state_delta)
ComputeSoftAdjustmentCalls ==
    /\ stateCall.op = "none"
    /\ \E unmet_per_region \in [DOMAIN regions -> UnmetChanges] :
         ComputeSoftAdjustmentCall(unmet_per_region)

EvaluateOptionsCalls ==
    /\ stateCall.op = "none"
    /\ \E pso_addition, pso_substitution \in [DOMAIN regions -> 0..MaxScore],
          state_duration \in 0..MaxDurationH,
          till_state_substitution \in [DOMAIN regions -> 0..MaxDurationH] :
         EvaluateOptionsCall(pso_addition, pso_substitution, state_duration,
                             till_state_substitution)

\* ---------------------------------------------------------------------------
\* LongestLivingFirstQueue (buffer_disciplines): requests is the deque of the
\* base class, leftmost element first; a request is [request_id,
\* cumulative_time, replies_expected]
\* ---------------------------------------------------------------------------
MaxQueue == 2            \* requests queued at once: 0..MaxQueue
MaxCumulativeTime == 2   \* cumulative_time of a request: 0..MaxCumulativeTime

RequestIds == {1, 2}

NoRequest == [none |-> TRUE, request_id |-> 0, cumulative_time |-> 0,
              replies_expected |-> 0]

\* the parts of one request share its id and the number of replies expected
Requests ==
    {[none |-> FALSE, request_id |-> i, cumulative_time |-> c,
      replies_expected |-> i] : i \in RequestIds, c \in 0..MaxCumulativeTime}

\* bisect.insort: to the right of the entries equal to x
InsortRight(times, x) ==
    LET k == Cardinality({i \in DOMAIN times : times[i] <= x})
    IN  SubSeq(times, 1, k) \o <<x>> \o SubSeq(times, k + 1, Len(times))

\* list.index: 0-based position of the first occurrence (x is in the list)
IndexOf(times, x) ==
    (CHOOSE i \in DOMAIN times :
        /\ times[i] = x
        /\ \A j \in 1..(i - 1) : times[j] # x) - 1

\* deque.insert(i, x): an index past the end appends
DequeInsert(reqs, i, x) ==
    LET k == IF i > Len(reqs) THEN Len(reqs) ELSE i
    IN  SubSeq(reqs, 1, k) \o <<x>> \o SubSeq(reqs, k + 1, Len(reqs))

RemoveAt(s, i) == SubSeq(s, 1, i - 1) \o SubSeq(s, i + 1, Len(s))

\* LongestLivingFirstQueue.insert
Insert(reqs, times, req) ==
    LET inserted == InsortRight(times, req.cumulative_time)
    IN  [requests |-> DequeInsert(reqs, IndexOf(inserted, req.cumulative_time), req),
         sorted_times_ascending |-> inserted]

\* LongestLivingFirstQueue.attempt_take
AttemptTake(reqs) == IF Len(reqs) > 0 THEN reqs[Len(reqs)] ELSE NoRequest

\* LongestLivingFirstQueue.take: list.remove raises ValueError for a value
\* that is not in the list
Take(reqs, times) ==
    IF Len(reqs) > 0
    THEN LET req == reqs[Len(reqs)]
             popped == SubSeq(reqs, 1, Len(reqs) - 1)
         IN  IF \E i \in DOMAIN times : times[i] = req.cumulative_time
             THEN [result |-> req, requests |-> popped,
                   sorted_times_ascending |->
                       RemoveAt(times, IndexOf(times, req.cumulative_time) + 1),
                   raised |-> ""]
             ELSE [result |-> NoRequest, requests |-> popped,
                   sorted_times_ascending |-> times, raised |-> "ValueError"]
    ELSE [result |-> NoRequest, requests |-> reqs,
          sorted_times_ascending |-> times, raised |-> ""]

\* LongestLivingFirstQueue.add_cumulative_time
AddCumulativeTime(reqs, times, delta) ==
    [requests |-> [i \in DOMAIN reqs |->
                      [reqs[i] EXCEPT !.cumulative_time = @ + delta]],
     sorted_times_ascending |-> [i \in DOMAIN times |-> times[i] + delta]]

\* QueuingDiscipline.remove_by_id: the loop walks reversed(self.requests) and
\* removes from the same deque; after a removal the iterator raises
\* RuntimeError (deque mutated during iteration) unless it is exhausted, that
\* is unless the removed element was the leftmost one
RemoveById(reqs, request_id) ==
    LET matches == {i \in DOMAIN reqs : reqs[i].request_id = request_id}
    IN  IF matches = {}
        THEN [requests |-> reqs, raised |-> ""]
        ELSE [requests |-> RemoveAt(reqs, Max(matches)),
              raised |-> IF Max(matches) = 1 THEN "" ELSE "RuntimeError"]

\* QueuingDiscipline.attempt_fan_in without the count of the parts present
AttemptFanIn_WithoutCounting(reqs) ==
    [result |-> AttemptTake(reqs), requests |-> reqs]

\* QueuingDiscipline.attempt_fan_in
AttemptFanIn(reqs) ==
    LET req == AttemptTake(reqs)
        reqs_present ==
            Cardinality({i \in DOMAIN reqs : reqs[i].request_id = req.request_id})
    IN  [result |-> IF ~req.none /\ req.replies_expected > 1
                       /\ reqs_present # req.replies_expected
                    THEN NoRequest
                    ELSE req,
         requests |-> reqs]

NoQueueCall == [op |-> "none", before |-> <<>>, result |-> NoRequest,
                raised |-> ""]

QueueCall(op, before, result, raised) ==
    [op |-> op, before |-> before, result |-> result, raised |-> raised]

InsertCall(req) ==
    LET after == Insert(requests, sorted_times_ascending, req)
    IN  /\ requests' = after.requests
        /\ sorted_times_ascending' = after.sorted_times_ascending
        /\ queueCall' = QueueCall("insert", requests, NoRequest, "")
        /\ UNCHANGED <<coreVars, loadVars, prcVars, polVars>>

AttemptTakeCall ==
    /\ queueCall' = QueueCall("attempt_take", requests, AttemptTake(requests), "")
    /\ UNCHANGED <<requests, sorted_times_ascending>>
    /\ UNCHANGED <<coreVars, loadVars, prcVars, polVars>>

TakeCall ==
    LET after == Take(requests, sorted_times_ascending)
    IN  /\ requests' = after.requests
        /\ sorted_times_ascending' = after.sorted_times_ascending
        /\ queueCall' = QueueCall("take", requests, after.result, after.raised)
        /\ UNCHANGED <<coreVars, loadVars, prcVars, polVars>>

AddCumulativeTimeCall(delta) ==
    LET after == AddCumulativeTime(requests, sorted_times_ascending, delta)
    IN  /\ requests' = after.requests
        /\ sorted_times_ascending' = after.sorted_times_ascending
        /\ queueCall' = QueueCall("add_cumulative_time", requests, NoRequest, "")
        /\ UNCHANGED <<coreVars, loadVars, prcVars, polVars>>

RemoveByIdCall(request_id) ==
    LET after == RemoveById(requests, request_id)
    IN  /\ requests' = after.requests
        /\ queueCall' = QueueCall("remove_by_id", requests, NoRequest, after.raised)
        /\ UNCHANGED sorted_times_ascending
        /\ UNCHANGED <<coreVars, loadVars, prcVars, polVars>>

AttemptFanInCall ==
    LET after == AttemptFanIn(requests)
    IN  /\ requests' = after.requests
        /\ queueCall' = QueueCall("attempt_fan_in", requests, after.result, "")
        /\ UNCHANGED sorted_times_ascending
        /\ UNCHANGED <<coreVars, loadVars, prcVars, polVars>>

\* the queue holds at most MaxQueue requests, the list of times one more
InsertCalls ==
    /\ Len(requests) < MaxQueue
    /\ Len(sorted_times_ascending) <= MaxQueue
    /\ \E req \in Requests : InsertCall(req)

\* cumulative times stay within 0..MaxCumulativeTime
AddCumulativeTimeCalls ==
    /\ requests # <<>>
    /\ \E delta \in 1..MaxCumulativeTime :
         /\ \A i \in DOMAIN requests :
               requests[i].cumulative_time + delta <= MaxCumulativeTime
         /\ \A i \in DOMAIN sorted_times_ascending :
               sorted_times_ascending[i] + delta <= MaxCumulativeTime
         /\ AddCumulativeTimeCall(delta)

RemoveByIdCalls == \E request_id \in RequestIds : RemoveByIdCall(request_id)

QueueIdle ==
    /\ requests = <<>>
    /\ sorted_times_ascending = <<>>
    /\ queueCall = NoQueueCall

\* ---------------------------------------------------------------------------
\* SeasonalLoadModel.generate_requests: one weekday, one type of request and
\* one generation bucket per second; a timestamp is [month, seconds], the
\* seconds counted from the start of the day
\* ---------------------------------------------------------------------------
MaxTimeUnit == 1     \* time units of a day: 0..MaxTimeUnit
MaxSecond == 1       \* seconds of a time unit: 0..MaxSecond

TimeUnits == 0..MaxTimeUnit
SECONDS_IN_DAY == (MaxTimeUnit + 1) * (MaxSecond + 1)

MonthKeys == {0, 1}          \* keys of monthly_vals: month 1 and the default 0
TimestampMonths == {1, 2}
AvgReqs == {0, 2}            \* the per time unit values of the pattern

LoadTimestamps ==
    [month : TimestampMonths, seconds : 0..(SECONDS_IN_DAY - 1)]

MonthlyVals == [MonthKeys -> [1..(MaxTimeUnit + 1) -> AvgReqs]]

RECURSIVE SumOver(_, _)
SumOver(f, S) ==
    IF S = {} THEN 0
    ELSE LET x == CHOOSE y \in S : TRUE IN f[x] + SumOver(f, S \ {x})

\* the outcomes of spreading avg_reqs_val requests over the seconds one by
\* one with np.random.randint
SplitsAcrossSeconds(seconds_per_time_unit, avg_reqs_val) ==
    {f \in [0..(seconds_per_time_unit - 1) -> 0..avg_reqs_val] :
        SumOver(f, DOMAIN f) = avg_reqs_val}

NoSplit == [s \in {} |-> 0]

\* SeasonalLoadModel._populate_split_across_seconds_if_needed with `or`
\* between the two comparisons
SplitNeeded_EitherChanged(month, time_unit, cur_month, cur_time_unit) ==
    month # cur_month \/ time_unit # cur_time_unit

\* the condition of SeasonalLoadModel._populate_split_across_seconds_if_needed
SplitNeeded(month, time_unit, cur_month, cur_time_unit) ==
    month # cur_month /\ time_unit # cur_time_unit

NoLoadCall == [op |-> "none", month |-> -1, time_unit |-> -1,
               second_in_time_unit |-> -1, before_month |-> -1,
               before_time_unit |-> -1, populated |-> FALSE,
               gen_reqs |-> 0]

\* generate_requests: the split across seconds, then the split of the
\* current second across the buckets, then the requests of the bucket
GenerateRequestsCall(timestamp, split, current_second_reqs) ==
    LET month == IF timestamp.month \in DOMAIN monthly_vals
                 THEN timestamp.month ELSE 0
        seconds_per_time_unit == SECONDS_IN_DAY \div Len(monthly_vals[month])
        time_unit == (timestamp.seconds % SECONDS_IN_DAY) \div seconds_per_time_unit
        populate == SplitNeeded(month, time_unit, current_month, current_time_unit)
        means == IF populate THEN split ELSE current_means_split_across_seconds
        second_in_time_unit == timestamp.seconds % seconds_per_time_unit
        avg_param == means[second_in_time_unit]
        steps == IF cur_second_in_time_unit # second_in_time_unit
                 THEN current_second_reqs
                 ELSE current_req_split_across_simulation_steps
    IN  /\ populate =>
              split \in SplitsAcrossSeconds(seconds_per_time_unit,
                                            monthly_vals[month][time_unit + 1])
        /\ ~populate => split = NoSplit
        /\ IF cur_second_in_time_unit # second_in_time_unit
           THEN current_second_reqs \in 0..avg_param
           ELSE current_second_reqs = 0
        /\ current_month' = IF populate THEN month ELSE current_month
        /\ current_time_unit' = IF populate THEN time_unit ELSE current_time_unit
        /\ current_means_split_across_seconds' = means
        /\ cur_second_in_time_unit' = second_in_time_unit
        /\ current_req_split_across_simulation_steps' = 0
        /\ loadCall' = [op |-> "generate_requests", month |-> month,
                        time_unit |-> time_unit,
                        second_in_time_unit |-> second_in_time_unit,
                        before_month |-> current_month,
                        before_time_unit |-> current_time_unit,
                        populated |-> populate, gen_reqs |-> steps]
        /\ UNCHANGED monthly_vals
        /\ UNCHANGED <<coreVars, queVars, prcVars, polVars>>

GenerateRequestsCalls ==
    \E timestamp \in LoadTimestamps :
      \E split \in [0..MaxSecond -> 0..Max(AvgReqs)] \cup {NoSplit} :
        \E current_second_reqs \in 0..Max(AvgReqs) :
          GenerateRequestsCall(timestamp, split, current_second_reqs)

LoadIdle ==
    /\ current_month = -1
    /\ current_time_unit = -1
    /\ current_means_split_across_seconds = NoSplit
    /\ cur_second_in_time_unit = -1
    /\ current_req_split_across_simulation_steps = 0
    /\ monthly_vals = [m \in MonthKeys |-> [u \in 1..(MaxTimeUnit + 1) |-> 0]]
    /\ loadCall = NoLoadCall

\* ---------------------------------------------------------------------------
\* RequestsProcessor: a request is [id, request_type, processing_service,
\* processing_time_left, cumulative_time]; id tells the request objects apart
\* ---------------------------------------------------------------------------
MaxProcessingTime == 2   \* processing_time_left at the start: 1..MaxProcessingTime

RequestTypes == {"t1", "t2"}
RequestObjects == {1, 2, 3}   \* the ids of the requests handed to start_processing

NoEntries == [k \in {} |-> 0]

\* dict.get(key, default)
Get(d, key, default) == IF key \in DOMAIN d THEN d[key] ELSE default

\* d[key] = value
Put(d, key, value) ==
    [k \in DOMAIN d \cup {key} |-> IF k = key THEN value ELSE d[k]]

Min(S) == CHOOSE x \in S : \A y \in S : x <= y

\* the loop of RequestsProcessor.step over the requests in processing, with
\* the counter of the request type left as it is when a request is finished
RECURSIVE StepLoop_KeepsStat(_, _, _, _, _)
StepLoop_KeepsStat(reqs, min_time_to_subtract, new_in_processing, new_out, new_stat) ==
    IF reqs = <<>>
    THEN [in_processing_simultaneous |-> new_in_processing,
          out |-> new_out, stat |-> new_stat]
    ELSE LET req == Head(reqs)
             new_time_left == req.processing_time_left - min_time_to_subtract
             moved == [req EXCEPT !.cumulative_time = @ + min_time_to_subtract]
         IN  IF new_time_left > 0
             THEN StepLoop_KeepsStat(Tail(reqs), min_time_to_subtract,
                      Append(new_in_processing,
                             [moved EXCEPT !.processing_time_left = new_time_left]),
                      new_out, new_stat)
             ELSE StepLoop_KeepsStat(Tail(reqs), min_time_to_subtract,
                      new_in_processing,
                      Put(new_out, req.processing_service,
                          Append(Get(new_out, req.processing_service, <<>>),
                                 [moved EXCEPT !.processing_time_left = 0])),
                      new_stat)

\* the loop of RequestsProcessor.step over the requests in processing
RECURSIVE StepLoop(_, _, _, _, _)
StepLoop(reqs, min_time_to_subtract, new_in_processing, new_out, new_stat) ==
    IF reqs = <<>>
    THEN [in_processing_simultaneous |-> new_in_processing,
          out |-> new_out, stat |-> new_stat]
    ELSE LET req == Head(reqs)
             new_time_left == req.processing_time_left - min_time_to_subtract
             moved == [req EXCEPT !.cumulative_time = @ + min_time_to_subtract]
         IN  IF new_time_left > 0
             THEN StepLoop(Tail(reqs), min_time_to_subtract,
                      Append(new_in_processing,
                             [moved EXCEPT !.processing_time_left = new_time_left]),
                      new_out, new_stat)
             ELSE StepLoop(Tail(reqs), min_time_to_subtract,
                      new_in_processing,
                      Put(new_out, req.processing_service,
                          Append(Get(new_out, req.processing_service, <<>>),
                                 [moved EXCEPT !.processing_time_left = 0])),
                      Put(new_stat, req.request_type,
                          Get(new_stat, req.request_type, 0) - 1))

\* RequestsProcessor.step
Step(in_processing, cur_out, cur_stat, time_budget) ==
    IF Len(in_processing) > 0
    THEN LET min_leftover_time ==
                 Min({in_processing[i].processing_time_left : i \in DOMAIN in_processing})
             min_time_to_subtract == Min({min_leftover_time, time_budget})
             after == StepLoop(in_processing, min_time_to_subtract, <<>>,
                               cur_out, cur_stat)
         IN  [in_processing_simultaneous |-> after.in_processing_simultaneous,
              out |-> after.out, stat |-> after.stat,
              time_budget |-> time_budget - min_time_to_subtract]
    ELSE [in_processing_simultaneous |-> in_processing, out |-> cur_out,
          stat |-> cur_stat, time_budget |-> time_budget]

\* RequestsProcessor.start_processing
StartProcessingCall(req) ==
    /\ stat' = Put(stat, req.request_type, Get(stat, req.request_type, 0) + 1)
    /\ in_processing_simultaneous' = Append(in_processing_simultaneous, req)
    /\ started' = started \cup {req.id}
    /\ UNCHANGED <<out_of_service, returned>>
    /\ UNCHANGED <<coreVars, queVars, loadVars, polVars>>

StepCall(time_budget) ==
    \E after \in {Step(in_processing_simultaneous, out_of_service, stat, time_budget)} :
       /\ in_processing_simultaneous' = after.in_processing_simultaneous
       /\ out_of_service' = after.out
       /\ stat' = after.stat
       /\ UNCHANGED <<started, returned>>
       /\ UNCHANGED <<coreVars, queVars, loadVars, polVars>>

\* RequestsProcessor.get_processed_for_service
GetProcessedForServiceCall(service_name) ==
    /\ IF service_name \in DOMAIN out_of_service
       THEN /\ returned' = returned \o
                   [i \in DOMAIN out_of_service[service_name] |->
                       out_of_service[service_name][i].id]
            /\ out_of_service' = [out_of_service EXCEPT ![service_name] = <<>>]
       ELSE UNCHANGED <<out_of_service, returned>>
    /\ UNCHANGED <<in_processing_simultaneous, stat, started>>
    /\ UNCHANGED <<coreVars, queVars, loadVars, polVars>>

\* a new request object with processing time left to spend
StartProcessingCalls ==
    /\ started # RequestObjects
    /\ \E request_type \in RequestTypes, processing_service \in Services,
          processing_time_left \in 1..MaxProcessingTime :
         StartProcessingCall([id |-> Min(RequestObjects \ started),
                              request_type |-> request_type,
                              processing_service |-> processing_service,
                              processing_time_left |-> processing_time_left,
                              cumulative_time |-> 0])

StepCalls == \E time_budget \in 0..MaxProcessingTime : StepCall(time_budget)

GetProcessedForServiceCalls ==
    \E service_name \in Services : GetProcessedForServiceCall(service_name)

ProcessorIdle ==
    /\ in_processing_simultaneous = <<>>
    /\ out_of_service = NoEntries
    /\ stat = NoEntries
    /\ started = {}
    /\ returned = <<>>

\* ---------------------------------------------------------------------------
\* ScalingPolicy.reconcile_state
\* ---------------------------------------------------------------------------
MaxPolicyTs == 4      \* timestamps passed to reconcile_state: 0..MaxPolicyTs
MaxSyncPeriod == 2    \* sync_period_timedelta: 0..MaxSyncPeriod
MaxAdjustCalls == 2   \* calls of platform_model.adjust recorded

\* ScalingState.update_val: both the message of the ValueError and the
\* assignment name aspect_name, which is not defined, so that either branch
\* ends with NameError and no attribute is set
UpdateVal(state, attribute_name, attribute_val) ==
    [state |-> state, raised |-> "NameError"]

\* ScalingState.get_val
GetVal(state, attribute_name) == state[attribute_name]

NoPolicyCall == [op |-> "none", cur_timestamp |-> 0, before |-> 0,
                 desired |-> FALSE, adjusted |-> FALSE, raised |-> ""]

\* reconcile_state: desired is whether compute_desired_state returned a
\* non-empty dictionary
ReconcileStateCall(cur, desired) ==
    LET state == [last_sync_timestamp |-> last_sync_timestamp]
        due == (cur - GetVal(state, "last_sync_timestamp")) > sync_period_timedelta
        adjusted == due /\ scaling_manager # "None" /\ desired
        updated == UpdateVal(state, "last_sync_timestamp", cur)
    IN  /\ adjust_calls' = IF adjusted THEN Append(adjust_calls, cur)
                           ELSE adjust_calls
        /\ last_sync_timestamp' = IF due THEN updated.state.last_sync_timestamp
                                  ELSE last_sync_timestamp
        /\ policyCall' = [op |-> "reconcile_state", cur_timestamp |-> cur,
                          before |-> last_sync_timestamp,
                          desired |-> desired, adjusted |-> adjusted,
                          raised |-> IF due THEN updated.raised ELSE ""]
        /\ UNCHANGED <<sync_period_timedelta, scaling_manager>>
        /\ UNCHANGED <<coreVars, queVars, loadVars, prcVars>>

\* ScalingPolicy.set_scaling_manager
SetScalingManagerCall ==
    /\ scaling_manager' = "ScalingManager"
    /\ UNCHANGED <<last_sync_timestamp, sync_period_timedelta, adjust_calls,
                   policyCall>>
    /\ UNCHANGED <<coreVars, queVars, loadVars, prcVars>>

\* the timestamps of successive calls do not decrease
ReconcileStateCalls ==
    /\ Len(adjust_calls) < MaxAdjustCalls
    /\ \E cur \in policyCall.cur_timestamp..MaxPolicyTs, desired \in BOOLEAN :
         ReconcileStateCall(cur, desired)

SetScalingManagerCalls ==
    /\ scaling_manager = "None"
    /\ SetScalingManagerCall

PolicyIdle ==
    /\ last_sync_timestamp = 0
    /\ sync_period_timedelta = 0
    /\ scaling_manager = "None"
    /\ adjust_calls = <<>>
    /\ policyCall = NoPolicyCall

SimulationIdle == QueueIdle /\ LoadIdle /\ ProcessorIdle /\ PolicyIdle

PlatformStateIdle ==
    /\ regions = EmptyPerRegion
    /\ stateCall = NoStateCall

AdjusterIdle ==
    /\ cur_timestamp = 0
    /\ last_scheduled_scaling_action_ts = 0
    /\ cooldown_period = 0
    /\ timeline_of_unmet_changes = <<>>
    /\ unmet_pos = 0
    /\ ts_of_unmet_change = NoTs
    /\ timeline_of_deltas = {}
    /\ updated_at_least_once = FALSE
    /\ processed = <<>>
    /\ lastIteration = NoIteration
    /\ pc = "idle"
    /\ adjust_result = "unset"

EnforcementIdle ==
    /\ gd = GeneralizedDelta(NoContainer, NoEntities)
    /\ scaling_model = [node_booting |-> 0, node_termination |-> 0,
                        service_booting |-> [s \in Services |-> 0],
                        service_termination |-> [s \in Services |-> 0]]
    /\ cached_enforcement = <<>>
    /\ lastCall = NoCall

InitAdjuster ==
    /\ cur_timestamp \in 0..AdjMaxTs
    /\ last_scheduled_scaling_action_ts \in 0..AdjMaxTs
    /\ cooldown_period \in 0..MaxCooldown
    /\ timeline_of_unmet_changes \in UnmetChangeTimelines
    /\ unmet_pos = 0
    /\ ts_of_unmet_change = NoTs
    /\ timeline_of_deltas = {}
    /\ updated_at_least_once = FALSE
    /\ processed = <<>>
    /\ lastIteration = NoIteration
    /\ pc = "idle"
    /\ adjust_result = "unset"
    /\ EnforcementIdle
    /\ PlacerIdle
    /\ CallsIdle
    /\ PlatformStateIdle
    /\ SimulationIdle

NextAdjuster == AdjustStart \/ LoopBody \/ LoopAdvance \/ AdjustReturn

SpecAdjuster == InitAdjuster /\ [][NextAdjuster]_vars

\* adjust_platform_state is an ordinary sequential call: it keeps running
\* until it returns.
FairSpecAdjuster == SpecAdjuster /\ WF_vars(NextAdjuster)

\* The durations enforce looks up for delta d (generalized_delta.py lines
\* 72-78): the node duration of the direction of the container delta and the
\* service durations of the direction of the entities delta, for its
\* services, and none at all in the terminal case.
Consulted(d) ==
    LET c == d.container_group_delta
        e == d.entities_group_delta
        enforced == ~c.none /\ c.in_change /\ ~c.virtual
    IN [node_booting |-> enforced /\ c.sign > 0,
        node_termination |-> enforced /\ c.sign < 0,
        service_booting |-> IF enforced /\ e.sign > 0 THEN e.services ELSE {},
        service_termination |-> IF enforced /\ e.sign < 0 THEN e.services ELSE {}]

\* A delta and a scaling model. The scaling model is a pure lookup: a
\* duration the delta never looks up cannot influence a run and is kept 0.
DurationsOf(services) ==
    { f \in [Services -> 0..MaxDelay] : \A s \in Services \ services : f[s] = 0 }

ScalingModelsFor(d) ==
    LET used == Consulted(d)
    IN [node_booting : IF used.node_booting THEN 0..MaxDelay ELSE {0},
        node_termination : IF used.node_termination THEN 0..MaxDelay ELSE {0},
        service_booting : DurationsOf(used.service_booting),
        service_termination : DurationsOf(used.service_termination)]

InitEnforcement ==
    /\ gd \in GeneralizedDeltas
    /\ scaling_model \in ScalingModelsFor(gd)
    /\ cached_enforcement = <<>>
    /\ lastCall = NoCall
    /\ AdjusterIdle
    /\ PlacerIdle
    /\ CallsIdle
    /\ PlatformStateIdle
    /\ SimulationIdle

NextEnforcement == EnforceCall \/ TillFullEnforcementCall

SpecEnforcement == InitEnforcement /\ [][NextEnforcement]_vars

InitPlacer ==
    /\ PlacerIdle
    /\ EnforcementIdle
    /\ AdjusterIdle
    /\ CallsIdle
    /\ PlatformStateIdle
    /\ SimulationIdle

NextPlacer == PlacerConstruct \/ PlacerCompute

SpecPlacer == InitPlacer /\ [][NextPlacer]_vars

InitCalls ==
    /\ CallsIdle
    /\ EnforcementIdle
    /\ AdjusterIdle
    /\ PlacerIdle
    /\ PlatformStateIdle
    /\ SimulationIdle

NextCalls == ScoreCalls \/ CalcCalls \/ GeneralizedDeltaInits

SpecCalls == InitCalls /\ [][NextCalls]_vars

\* Configuration: the constructor of the Placer and the registries
InitConfiguration == InitCalls

NextConfiguration ==
    \/ PlacerConstruct
    \/ ScoreRegistryGets
    \/ AdjusterRegisters
    \/ AdjusterGets

SpecConfiguration == InitConfiguration /\ [][NextConfiguration]_vars

\* StateDuration and PlatformState
InitPlatformState ==
    /\ regions \in PlatformStates
    /\ stateCall = NoStateCall
    /\ EnforcementIdle
    /\ AdjusterIdle
    /\ PlacerIdle
    /\ CallsIdle
    /\ SimulationIdle

NextPlatformState ==
    \/ StateDurationMuls
    \/ PlatformStateDurationMuls
    \/ UpdateVirtuallyCalls
    \/ PlatformStateAddCalls
    \/ ComputeSoftAdjustmentCalls
    \/ EvaluateOptionsCalls

SpecPlatformState == InitPlatformState /\ [][NextPlatformState]_vars

CoreIdle ==
    /\ EnforcementIdle
    /\ AdjusterIdle
    /\ PlacerIdle
    /\ CallsIdle
    /\ PlatformStateIdle

\* LongestLivingFirstQueue
InitQueue == QueueIdle /\ CoreIdle /\ LoadIdle /\ ProcessorIdle /\ PolicyIdle

NextQueue ==
    \/ InsertCalls
    \/ AttemptTakeCall
    \/ TakeCall
    \/ AddCumulativeTimeCalls
    \/ RemoveByIdCalls
    \/ AttemptFanInCall

SpecQueue == InitQueue /\ [][NextQueue]_vars

\* SeasonalLoadModel
InitLoad ==
    /\ current_month = -1
    /\ current_time_unit = -1
    /\ current_means_split_across_seconds = NoSplit
    /\ cur_second_in_time_unit = -1
    /\ current_req_split_across_simulation_steps = 0
    /\ monthly_vals \in MonthlyVals
    /\ loadCall = NoLoadCall
    /\ CoreIdle /\ QueueIdle /\ ProcessorIdle /\ PolicyIdle

NextLoad == GenerateRequestsCalls

SpecLoad == InitLoad /\ [][NextLoad]_vars

\* RequestsProcessor
InitProcessor == ProcessorIdle /\ CoreIdle /\ QueueIdle /\ LoadIdle /\ PolicyIdle

NextProcessor == StartProcessingCalls \/ StepCalls \/ GetProcessedForServiceCalls

SpecProcessor == InitProcessor /\ [][NextProcessor]_vars

\* ScalingPolicy
InitPolicy ==
    /\ last_sync_timestamp = 0
    /\ sync_period_timedelta \in 0..MaxSyncPeriod
    /\ scaling_manager = "None"
    /\ adjust_calls = <<>>
    /\ policyCall = NoPolicyCall
    /\ CoreIdle /\ QueueIdle /\ LoadIdle /\ ProcessorIdle

NextPolicy == ReconcileStateCalls \/ SetScalingManagerCalls

SpecPolicy == InitPolicy /\ [][NextPolicy]_vars

\* ===========================================================================
\* Properties
\* ===========================================================================
\* The entries (timestamp, GeneralizedDelta) of a mapping returned by enforce
Entries(new_deltas) ==
    UNION { { [ts |-> t, delta |-> new_deltas[t][i]] : i \in 1..Len(new_deltas[t]) }
            : t \in DOMAIN new_deltas }

CarriesEntities(e) == ~e.delta.entities_group_delta.none
CarriesEnforcedContainer(e) ==
    e.delta.entities_group_delta.none /\ ~e.delta.container_group_delta.virtual

\* The last call returned the schedule of a delta that is in change, not
\* virtual and of the given sign.
ReturnedScheduleOfSign(sign) ==
    /\ lastCall.op # "none"
    /\ ~lastCall.raised
    /\ ~gd.container_group_delta.none
    /\ gd.container_group_delta.in_change
    /\ ~gd.container_group_delta.virtual
    /\ gd.container_group_delta.sign = sign

\* The delays the scaling model gives for the entities of the delta
EntityDelays ==
    { ServiceDelay(scaling_model, gd.entities_group_delta.sign, s) :
        s \in gd.entities_group_delta.services }

\* C1. Scale-up ordering: in the schedule of a scale-up delta, every entry
\* that carries an entities delta has a timestamp that is not earlier than
\* the timestamp of the entry that carries the enforced container delta.
ScaleUpEntitiesNotBeforeContainer ==
    ReturnedScheduleOfSign(1) =>
        \A e, c \in Entries(lastCall.new_deltas) :
            (CarriesEntities(e) /\ CarriesEnforcedContainer(c)) => e.ts >= c.ts

WitnessScaleUpOrdering ==
    /\ ReturnedScheduleOfSign(1)
    /\ scaling_model.node_booting > 0
    /\ \E e, c \in Entries(lastCall.new_deltas) :
          CarriesEntities(e) /\ CarriesEnforcedContainer(c) /\ e.ts = c.ts
    /\ \E e, c \in Entries(lastCall.new_deltas) :
          CarriesEntities(e) /\ CarriesEnforcedContainer(c) /\ e.ts > c.ts

\* C2. Scale-down ordering: in the schedule of a scale-down delta the entry
\* that removes the container is at base_timestamp + max(entity delays) +
\* container_delay, and no entry with an entities delta is later than it.
ScaleDownContainerRemovedLast ==
    ReturnedScheduleOfSign(-1) =>
        LET removal == { c \in Entries(lastCall.new_deltas) : ~CarriesEntities(c) }
            max_delay == IF EntityDelays = {} THEN 0 ELSE Max(EntityDelays)
        IN /\ Cardinality(removal) = 1
           /\ \A c \in removal :
                /\ c.ts = lastCall.ts + max_delay + scaling_model.node_termination
                /\ \A e \in Entries(lastCall.new_deltas) : CarriesEntities(e) => c.ts >= e.ts

WitnessScaleDownOrdering ==
    /\ ReturnedScheduleOfSign(-1)
    /\ Cardinality(EntityDelays) = 2
    /\ scaling_model.node_termination = 0
    /\ lastCall.ts > 0

\* C3 (as claimed). Cooldown spacing: with a positive cooldown, every delta
\* is written at least cooldown_period after the last scheduled scaling
\* action, and the deltas of two different events are at least
\* cooldown_period apart.
CooldownSpacing ==
    cooldown_period > 0 =>
        /\ \A w \in timeline_of_deltas :
              w.ts >= last_scheduled_scaling_action_ts + cooldown_period
        /\ \A w1, w2 \in timeline_of_deltas :
              w1.event # w2.event =>
                 (w1.ts - w2.ts >= cooldown_period \/ w2.ts - w1.ts >= cooldown_period)

\* C4 (as claimed). Cooldown shift: the plan chosen for an unmet change that
\* occurs after the last scheduled action but less than cooldown_period
\* after it is written at last_scheduled_scaling_action_ts + cooldown_period.
CooldownShift ==
    (/\ cooldown_period > 0
     /\ lastIteration.evaluated
     /\ lastIteration.ts > last_scheduled_scaling_action_ts
     /\ lastIteration.ts - last_scheduled_scaling_action_ts < cooldown_period)
    => lastIteration.best_ts = last_scheduled_scaling_action_ts + cooldown_period

\* C5. till_full_enforcement is idempotent: a call that repeats the call
\* before it (same timestamp) ends the same way with the same duration,
\* builds nothing anew, and leaves the cache and the delta as they were.
TillFullEnforcementIdempotent ==
    [][(/\ lastCall.op = "till_full_enforcement"
        /\ lastCall'.op = "till_full_enforcement"
        /\ lastCall'.ts = lastCall.ts)
       => (/\ lastCall'.raised = lastCall.raised
           /\ lastCall'.duration = lastCall.duration
           /\ lastCall'.new_deltas = lastCall.new_deltas
           /\ ~lastCall'.recomputed
           /\ cached_enforcement' = cached_enforcement
           /\ gd' = gd)]_vars

WitnessTillFullEnforcementRepeated ==
    /\ lastCall.op = "till_full_enforcement"
    /\ lastCall.repeat
    /\ ~lastCall.raised
    /\ lastCall.duration > 0
    /\ lastCall.ts \in DOMAIN cached_enforcement

\* C6 (as claimed). The enforcement cache never loses an entry.
EnforcementCacheNeverLosesEntry == lastCall.evicted = {}

\* C6 (amended). The enforcement cache holds at most one entry, the one of
\* the timestamp computed last: after a call that returns, it holds exactly
\* the returned mapping under the timestamp of the call, and an entry is only
\* removed by a computation for another timestamp.
EnforcementCacheHoldsLastTimestamp ==
    /\ Cardinality(DOMAIN cached_enforcement) <= 1
    /\ (lastCall.op # "none" /\ ~lastCall.raised) =>
          /\ DOMAIN cached_enforcement = {lastCall.ts}
          /\ cached_enforcement[lastCall.ts] = lastCall.new_deltas
    /\ lastCall.evicted # {} => (lastCall.recomputed /\ lastCall.ts \notin lastCall.evicted)

WitnessEnforcementCacheEviction ==
    /\ lastCall.op = "enforce"
    /\ lastCall.evicted # {}
    /\ lastCall.recomputed
    /\ DOMAIN lastCall.new_deltas # {}

\* The deltas written for the event of the last iteration
WrittenForLastEvent(delta) ==
    { w \in timeline_of_deltas : w.event = lastIteration.event /\ w.delta = delta }

\* C7. Infeasible-option selection: if exactly one of the two scores is
\* is_worst, the delta of the other plan is the one written, whatever the
\* joint scores are.
InfeasibleOptionNotSelected ==
    (/\ lastIteration.evaluated
     /\ lastIteration.score_addition.is_worst # lastIteration.score_substitution.is_worst)
    => LET feasible == IF lastIteration.score_addition.is_worst
                       THEN "substitution" ELSE "addition"
           infeasible == IF lastIteration.score_addition.is_worst
                         THEN "addition" ELSE "substitution"
       IN /\ [ts |-> lastIteration.best_ts, delta |-> feasible,
              event |-> lastIteration.event] \in timeline_of_deltas
          /\ WrittenForLastEvent(infeasible) = {}

WitnessInfeasibleSubstitution ==
    /\ lastIteration.evaluated
    /\ ~lastIteration.score_addition.is_worst
    /\ lastIteration.score_substitution.is_worst
    /\ lastIteration.score_addition.joint_score < lastIteration.score_substitution.joint_score
    /\ WrittenForLastEvent("addition") # {}

\* Both plans feasible and of equal joint score
TiedScores ==
    /\ lastIteration.evaluated
    /\ ~lastIteration.score_addition.is_worst
    /\ ~lastIteration.score_substitution.is_worst
    /\ lastIteration.score_addition.joint_score = lastIteration.score_substitution.joint_score

\* C8 (as claimed). Tie-breaking: on equal joint scores of two feasible
\* plans the addition delta is written.
TiesFavorAddition ==
    TiedScores => /\ WrittenForLastEvent("addition") # {}
                  /\ WrittenForLastEvent("substitution") = {}

\* C8 (amended). On equal joint scores of two feasible plans the
\* substitution delta is written; the addition delta is written only when
\* its joint score is strictly greater.
TiesSelectSubstitution ==
    TiedScores => /\ [ts |-> lastIteration.best_ts, delta |-> "substitution",
                      event |-> lastIteration.event] \in timeline_of_deltas
                  /\ WrittenForLastEvent("addition") = {}

WitnessTiedScores ==
    /\ TiedScores
    /\ WrittenForLastEvent("substitution") # {}

\* Events of the timeline of unmet changes at or after cur_timestamp
HandledEvents ==
    { i \in 1..Len(timeline_of_unmet_changes) :
         timeline_of_unmet_changes[i] >= cur_timestamp }

\* C9. adjust_platform_state returns the timeline if and only if a delta was
\* written during the call; without any event at or after cur_timestamp it
\* returns None.
ReturnsTimelineIffWritten ==
    pc = "done" =>
        /\ adjust_result \in {"timeline", "None"}
        /\ (adjust_result = "timeline") <=> (timeline_of_deltas # {})
        /\ (HandledEvents = {}) => (adjust_result = "None")

WitnessNoActionNeeded ==
    /\ pc = "done"
    /\ adjust_result = "None"
    /\ Len(timeline_of_unmet_changes) = 2

IsPrefix(p, q) == Len(p) <= Len(q) /\ \A i \in 1..Len(p) : p[i] = q[i]

\* The loop has completed exactly the events it requested, except for the
\* one it is about to handle.
OneEventAtATime ==
    /\ IsPrefix(processed, timeline_of_unmet_changes)
    /\ \A i, j \in 1..Len(processed) : i < j => processed[i] < processed[j]
    /\ pc = "while" => unmet_pos = Len(processed) + 1
    /\ pc = "next" => unmet_pos = Len(processed)
    /\ pc = "done" => processed = timeline_of_unmet_changes
    /\ (pc = "while" /\ ts_of_unmet_change = NoTs) => processed = timeline_of_unmet_changes

ComputeCalled == placerCall.op = "compute"

\* the requirement set of the call holds one entity, and an instance of it
\* fits some container type of the catalog
SingleFittingEntity ==
    /\ Cardinality(DOMAIN placerCall.requirements) = 1
    /\ \E e \in DOMAIN placerCall.requirements, c \in DOMAIN placerCall.catalog :
          Fits(placerCall.requirements[e], placerCall.catalog[c])

ReturnedOptions == placerCall.raised = "" /\ DOMAIN placerCall.result # {}

\* C11. Placer escalation: when the shared strategy was run and yields no
\* option, the specialized strategy is attempted, and a call with a
\* one-entity requirement set that fits some container type returns at
\* least one placement option.
PlacerEscalationYieldsOption ==
    ComputeCalled =>
        /\ ("shared" \in placerCall.attempted
              /\ DOMAIN PlaceShared(placerCall.requirements, placerCall.catalog) = {})
            => "specialized" \in placerCall.attempted
        /\ SingleFittingEntity => ReturnedOptions

\* C12. The specialized strategy places one entity type per container: for
\* the requirements {s1: 1} and the catalog {small: capacity 1} the result
\* is exactly one placement of type small, fully used, holding one s1.
SpecializedPlacesOneEntityTypePerContainer ==
    (ComputeCalled /\ "specialized" \in placerCall.attempted) =>
        /\ placerCall.raised = ""
        /\ \A c \in DOMAIN placerCall.result :
             \A i \in 1..Len(placerCall.result[c]) :
                Cardinality(DOMAIN placerCall.result[c][i].placed_entities) = 1
        /\ (placerCall.requirements = ("s1" :> 1) /\ placerCall.catalog = ("small" :> 1))
            => placerCall.result =
                 ("small" :> << InContainerPlacement("small", 1, 1, ("s1" :> 1)) >>)

\* C13. Placer caching: a non-empty result computed without dynamic inputs
\* is the content of the cache after the call, and a call that supplies a
\* dynamic input is never answered from the cache.
PlacerCachesNonEmptyResult ==
    ComputeCalled =>
        /\ (ReturnedOptions /\ NoDynamicInputs(placerCall.dynamic))
            => placer.cached_placement_options = placerCall.result
        /\ ~NoDynamicInputs(placerCall.dynamic) => ~placerCall.from_cache

\* ---------------------------------------------------------------------------
\* Score calculator, calculator, constructor
\* ---------------------------------------------------------------------------
ScoredUnknownContainerType ==
    /\ scoreCall.op = "score"
    /\ scoreCall.container_name \notin DOMAIN scoreCall.catalog

\* C14 (as claimed). A score calculator asked to score an option whose
\* container type is not in its catalog returns a score marked is_worst and
\* does not raise.
UnknownContainerTypeScoredWorst ==
    ScoredUnknownContainerType =>
        /\ scoreCall.raised = ""
        /\ ~scoreCall.score.none
        /\ scoreCall.score.is_worst

\* C14 (amended). A score calculator asked to score an option whose
\* container type is not in its catalog raises ValueError and returns no
\* score; for a container type of the catalog it returns a score that is
\* not marked is_worst.
UnknownContainerTypeRaises ==
    scoreCall.op = "score" =>
        IF scoreCall.container_name \in DOMAIN scoreCall.catalog
        THEN scoreCall.raised = "" /\ ~scoreCall.score.none /\ ~scoreCall.score.is_worst
        ELSE scoreCall.raised = "ValueError" /\ scoreCall.score.none

WitnessUnknownContainerType ==
    /\ ScoredUnknownContainerType
    /\ DOMAIN scoreCall.catalog = {"small"}
    /\ scoreCall.container_name = "large"
    /\ scoreCall.raised = "ValueError"

\* C15. Infeasibility inside the calculator is returned, not thrown: a call
\* for which some region has an empty list of placement options returns a
\* pair whose score is marked is_worst and does not raise.
InfeasibilityReturnedNotThrown ==
    (calcCall.op = "calc"
       /\ \E r \in DOMAIN calcCall.entities_states : calcCall.entities_states[r] = 0)
    => (calcCall.raised = "" /\ calcCall.is_worst)

\* C16. Sign agreement: a constructed GeneralizedDelta whose container delta
\* and entities delta are both present has both of the same sign (a
\* construction with opposite signs raises instead).
SignAgreement ==
    (ctorCall.op = "init" /\ ctorCall.constructed
       /\ ~ctorCall.object.container_group_delta.none
       /\ ~ctorCall.object.entities_group_delta.none)
    => ctorCall.object.container_group_delta.sign
          = ctorCall.object.entities_group_delta.sign

\* ---------------------------------------------------------------------------
\* Enforcement schedule
\* ---------------------------------------------------------------------------
\* number of entries of a mapping returned by enforce
RECURSIVE EntriesCount(_, _)
EntriesCount(new_deltas, stamps) ==
    IF stamps = {} THEN 0
    ELSE LET t == CHOOSE x \in stamps : TRUE
         IN Len(new_deltas[t]) + EntriesCount(new_deltas, stamps \ {t})

\* the delta of gd after its enforcement: the same change, no longer in change
EnforcedContainerDelta == [gd.container_group_delta EXCEPT !.in_change = FALSE]

\* the entities of gd whose delay is dl
EntitiesWithDelay(dl) ==
    [none |-> FALSE, sign |-> gd.entities_group_delta.sign,
     services |-> { s \in gd.entities_group_delta.services :
                      ServiceDelay(scaling_model, gd.entities_group_delta.sign, s) = dl }]

\* C17. Scale-up schedule: for a scale-up delta enforced at T the schedule
\* holds the enforced container delta at T + container_delay with no
\* entities delta, and every entities delta at T + container_delay + its
\* service delay with a virtual copy of the enforced container delta; there
\* is no other entry.
ScaleUpScheduleExact ==
    ReturnedScheduleOfSign(1) =>
        LET T == lastCall.ts
            container_delay == scaling_model.node_booting
            container_entry ==
                [ts |-> T + container_delay,
                 delta |-> GeneralizedDelta(EnforcedContainerDelta, NoEntities)]
            entity_entry(dl) ==
                [ts |-> T + container_delay + dl,
                 delta |-> GeneralizedDelta(
                              [EnforcedContainerDelta EXCEPT !.virtual = TRUE],
                              EntitiesWithDelay(dl))]
        IN /\ Entries(lastCall.new_deltas)
                = {container_entry} \cup { entity_entry(dl) : dl \in EntityDelays }
           /\ EntriesCount(lastCall.new_deltas, DOMAIN lastCall.new_deltas)
                = 1 + Cardinality(EntityDelays)

\* boot 3 and service start 1: entries at T + 3 and T + 4
WitnessScaleUpSchedule ==
    /\ ReturnedScheduleOfSign(1)
    /\ lastCall.op = "enforce"
    /\ scaling_model.node_booting = 3
    /\ gd.entities_group_delta.sign = 1
    /\ EntityDelays = {1}
    /\ DOMAIN lastCall.new_deltas = {lastCall.ts + 3, lastCall.ts + 4}

\* the entries without an entities delta
ContainerOnlyEntries == { e \in Entries(lastCall.new_deltas) : ~CarriesEntities(e) }

\* C18 (as claimed). Scale-down immediate entry: the schedule of a
\* scale-down delta holds, besides the final removal entry, an entry at
\* exactly base_timestamp that pairs the container delta with no entities
\* delta.
ScaleDownImmediateEntry ==
    ReturnedScheduleOfSign(-1) =>
        \E e, f \in ContainerOnlyEntries :
            /\ e # f
            /\ e.ts = lastCall.ts
            /\ e.delta.container_group_delta
                 \in {gd.container_group_delta, EnforcedContainerDelta}

\* C18 (amended). The schedule of a scale-down delta holds exactly one entry
\* without an entities delta: the final removal, which carries the enforced
\* container delta at base_timestamp + max(entity delays) + container_delay.
\* No entry pairs the delta still in change with no entities delta, and
\* there is an entry without entities at base_timestamp only when both
\* delays are zero.
ScaleDownOnlyFinalRemoval ==
    ReturnedScheduleOfSign(-1) =>
        LET max_delay == IF EntityDelays = {} THEN 0 ELSE Max(EntityDelays)
            removal_ts == lastCall.ts + max_delay + scaling_model.node_termination
        IN /\ ContainerOnlyEntries =
                { [ts |-> removal_ts,
                   delta |-> GeneralizedDelta(EnforcedContainerDelta, NoEntities)] }
           /\ EntriesCount(lastCall.new_deltas, DOMAIN lastCall.new_deltas)
                = 1 + Cardinality(EntityDelays)
           /\ (\E e \in ContainerOnlyEntries : e.ts = lastCall.ts)
                <=> (max_delay = 0 /\ scaling_model.node_termination = 0)

WitnessScaleDownDraining ==
    /\ ReturnedScheduleOfSign(-1)
    /\ lastCall.op = "enforce"
    /\ gd.entities_group_delta.sign = -1
    /\ EntityDelays = {2}
    /\ scaling_model.node_termination = 1
    /\ lastCall.ts \notin DOMAIN lastCall.new_deltas

\* the last call returned for a delta that is not to be enforced
ReturnedForTerminalDelta ==
    /\ lastCall.op # "none"
    /\ ~lastCall.raised
    /\ ~gd.container_group_delta.none
    /\ (~gd.container_group_delta.in_change \/ gd.container_group_delta.virtual)

\* C19. Terminal case: for a container delta that is not in change or is
\* virtual, enforce returns the empty mapping and till_full_enforcement
\* returns the zero duration.
TerminalCaseEmptySchedule ==
    ReturnedForTerminalDelta =>
        /\ DOMAIN lastCall.new_deltas = {}
        /\ lastCall.duration = 0

WitnessTerminalCase ==
    /\ ReturnedForTerminalDelta
    /\ lastCall.op = "till_full_enforcement"
    /\ gd.container_group_delta.in_change
    /\ gd.container_group_delta.virtual
    /\ gd.entities_group_delta.services # {}
    /\ lastCall.ts > 0

\* ---------------------------------------------------------------------------
\* Configuration
\* ---------------------------------------------------------------------------
\* C20. Configuration errors are raised eagerly: the constructor of the
\* Placer raises for a hint outside the supported set and leaves no Placer,
\* a lookup of an unregistered name in the registry of the score
\* calculators or of the adjusters raises, and a lookup of a registered
\* name returns the class registered under it.
ConfigurationErrorsRaisedEagerly ==
    /\ placerCall.op = "init" =>
          IF placerCall.hint \in placement_hints
          THEN /\ placerCall.raised = ""
               /\ placer.exists
               /\ placer.placement_hint = placerCall.hint
          ELSE placerCall.raised = "ValueError" /\ ~placer.exists
    /\ registryCall.op = "score_get" =>
          IF registryCall.name = "CostMinimizer"
          THEN registryCall.raised = "" /\ registryCall.result = "PriceScoreCalculator"
          ELSE registryCall.raised = "ValueError" /\ registryCall.result = ""
    /\ registryCall.op = "adjuster_get" =>
          IF registryCall.name \in DOMAIN adjuster_Registry
          THEN /\ registryCall.raised = ""
               /\ registryCall.result = adjuster_Registry[registryCall.name]
          ELSE registryCall.raised = "ValueError" /\ registryCall.result = ""

WitnessUnregisteredName ==
    /\ placerCall.op = "init"
    /\ placerCall.hint = "shared"
    /\ placerCall.raised = "ValueError"
    /\ registryCall.op = "adjuster_get"
    /\ registryCall.raised = "ValueError"
    /\ DOMAIN adjuster_Registry # {}

\* ---------------------------------------------------------------------------
\* GeneralizedDelta: entity entries on scale down, duration of the enforcement
\* ---------------------------------------------------------------------------
\* the entries of the returned schedule that carry an entities delta
EntityEntries == { e \in Entries(lastCall.new_deltas) : CarriesEntities(e) }

\* C25. Scale-down entity entries: for a scale-down delta (in change, not
\* virtual) enforced at T, every entities delta with service delay e is at
\* exactly T + e, the container delay not added, paired with a copy of the
\* container delta whose virtual flag is true; the container delta of the
\* original delta keeps virtual = false.
ScaleDownEntityEntries ==
    /\ ReturnedScheduleOfSign(-1) =>
          EntityEntries
            = { [ts |-> lastCall.ts + dl,
                 delta |-> GeneralizedDelta(
                              [gd.container_group_delta EXCEPT !.virtual = TRUE],
                              EntitiesWithDelay(dl))] : dl \in EntityDelays }
    /\ (lastCall.op # "none" /\ ~lastCall.raised /\ EntityEntries # {}) =>
          ~gd.container_group_delta.virtual

\* termination of the node 2, of the service 1: the entity entry is at T + 1
WitnessScaleDownEntityEntries ==
    /\ ReturnedScheduleOfSign(-1)
    /\ lastCall.op = "enforce"
    /\ scaling_model.node_termination = 2
    /\ EntityDelays = {1}
    /\ \E e \in EntityEntries :
          e.ts = lastCall.ts + 1 /\ e.delta.container_group_delta.virtual

\* the delay PlatformScalingModel.delay gives for the container delta of gd
ContainerDelay ==
    IF gd.container_group_delta.sign < 0 THEN scaling_model.node_termination
    ELSE scaling_model.node_booting

\* C26. For a delta in change and not virtual, till_full_enforcement(t) is
\* the latest timestamp of enforce(t) minus t, which is container_delay +
\* max(entity delays) on scale up and on scale down (container_delay alone
\* without entities), and is never negative.
TillFullEnforcementIsLastEntry ==
    (lastCall.op = "till_full_enforcement"
        /\ (ReturnedScheduleOfSign(1) \/ ReturnedScheduleOfSign(-1))) =>
        /\ lastCall.duration
              = Max({ e.ts : e \in Entries(lastCall.new_deltas) }) - lastCall.ts
        /\ lastCall.duration
              = ContainerDelay + (IF EntityDelays = {} THEN 0 ELSE Max(EntityDelays))
        /\ lastCall.duration >= 0

\* scale down, node termination 2 and service terminations 1 and 3: 5
WitnessTillFullEnforcement ==
    /\ lastCall.op = "till_full_enforcement"
    /\ ReturnedScheduleOfSign(-1)
    /\ scaling_model.node_termination = 2
    /\ EntityDelays = {1, 3}
    /\ lastCall.duration = 5

\* ---------------------------------------------------------------------------
\* Placer: the shared and the balanced strategy
\* ---------------------------------------------------------------------------
\* the capacity that the recorded instances of a placement consume
RECURSIVE CapacityOfInstances(_, _, _)
CapacityOfInstances(placed_entities, req, entities) ==
    IF entities = {} THEN 0
    ELSE LET e == CHOOSE x \in entities : TRUE
         IN placed_entities[e] * req[e]
              + CapacityOfInstances(placed_entities, req, entities \ {e})

\* the call returned what _place_shared produced
ReturnedSharedOptions ==
    /\ placerCall.op = "compute"
    /\ placerCall.raised = ""
    /\ ~placerCall.from_cache
    /\ "shared" \in placerCall.attempted

\* C28. Shared packing: every placement produced by _place_shared has a
\* cumulative capacity within the capacity of its container type; the
\* instance count recorded for an entity is the number of its instances
\* kept in the accumulator, so the recorded instances consume exactly the
\* cumulative capacity; the entities of a placement are taken in descending
\* order of the capacity one instance consumes (a placement leaves out only
\* entities that consume at least as much as each one it holds).
SharedPackingRecordsKeptInstances ==
    ReturnedSharedOptions =>
        \A c \in DOMAIN placerCall.result :
            \A i \in 1..Len(placerCall.result[c]) :
                LET option == placerCall.result[c][i]
                    req == placerCall.requirements
                    fitting == { e \in DOMAIN req : Fits(req[e], placerCall.catalog[c]) }
                IN /\ option.capacity_taken.used <= option.capacity_taken.of
                   /\ CapacityOfInstances(option.placed_entities, req,
                                          DOMAIN option.placed_entities)
                        = option.capacity_taken.used
                   /\ DOMAIN option.placed_entities \subseteq fitting
                   /\ \A e \in DOMAIN option.placed_entities :
                         \A x \in fitting \ DOMAIN option.placed_entities :
                             req[x] >= req[e]

\* how far from full utilization a placement is, in units of capacity
Slack(option) ==
    IF option.capacity_taken.of >= option.capacity_taken.used
    THEN option.capacity_taken.of - option.capacity_taken.used
    ELSE option.capacity_taken.used - option.capacity_taken.of

\* |capacity taken - 1| <= 0.05, capacity taken being used / of
WithinBalancingThreshold(option) == 20 * Slack(option) <= option.capacity_taken.of

\* C29. Balanced strategy: with the hint 'balanced' the call returns, for
\* every container type of the shared options, exactly the shared options
\* whose consumed capacity is within the balancing threshold 0.05 of full
\* utilization or, when there is none, the single shared option closest to
\* full; one entry per container type, nothing for empty shared options.
BalancedKeepsNearFullOptions ==
    (placerCall.op = "compute" /\ placerCall.hint = "balanced"
        /\ ~placerCall.from_cache) =>
        LET shared == PlaceShared(placerCall.requirements, placerCall.catalog)
        IN /\ placerCall.raised = ""
           /\ DOMAIN placerCall.result = DOMAIN shared
           /\ \A c \in DOMAIN shared :
                 LET within == SelectSeq(shared[c], WithinBalancingThreshold)
                 IN IF within # <<>>
                    THEN placerCall.result[c] = within
                    ELSE \E i \in 1..Len(shared[c]) :
                           /\ placerCall.result[c] = <<shared[c][i]>>
                           /\ \A j \in 1..Len(shared[c]) :
                                 Slack(shared[c][i]) <= Slack(shared[c][j])

\* ---------------------------------------------------------------------------
\* StateDuration and PlatformState
\* ---------------------------------------------------------------------------
\* the duration covers the region: it was given for the region, or the
\* StateDuration was built from a single value
Covered(duration, region_name) ==
    duration.from_single_value \/ region_name \in DOMAIN duration.durations_per_region

\* C21. Amortisation: the product of a StateDuration and a StateScore has,
\* for exactly the regions of the score that the duration covers, the entry
\* score x duration in hours; a StateDuration built from a single value d
\* covers every region with d.
AmortisationCoversScore ==
    stateCall.op \in {"mul", "mul_h"} =>
        /\ DOMAIN stateCall.result
              = { r \in DOMAIN stateCall.argument : Covered(stateCall.duration, r) }
        /\ \A r \in DOMAIN stateCall.result :
              stateCall.result[r]
                = stateCall.argument[r] * DurationOfRegion(stateCall.duration, r)

\* C22. Speculative evaluation is copy-on-write: update_virtually and +
\* return a state and leave the regions of the receiver, and what each of
\* them holds, as they were before the call.
SpeculativeEvaluationLeavesReceiver ==
    stateCall.op \in {"update_virtually", "add"} =>
        /\ stateCall.raised = ""
        /\ regions = stateCall.before

\* C30. Soft adjustment: compute_soft_adjustment leaves the state unchanged
\* and returns, for every region, exactly the unaccommodated service
\* changes that are positive.
SoftAdjustmentCarriesPositiveUnmet ==
    stateCall.op = "compute_soft_adjustment" =>
        /\ stateCall.raised = ""
        /\ regions = stateCall.before
        /\ \A r \in DOMAIN stateCall.unmet_per_region :
              LET left == stateCall.unmet_per_region[r]
                  carried == IF r \in DOMAIN stateCall.unmet
                             THEN stateCall.unmet[r] ELSE {}
              IN carried = { <<s, left[s]>> : s \in { x \in DOMAIN left : left[x] > 0 } }

\* the score a StateScore holds for a region (nothing: 0)
ScoreOfRegion(state_score, region_name) ==
    IF region_name \in DOMAIN state_score THEN state_score[region_name] ELSE 0

\* C27. Option scoring: in every region of the current state the addition
\* score is the PSO score of the unmet demand plus the score of the current
\* state over the evaluation window, and the substitution score is the PSO
\* score of current services plus unmet demand plus the score of the current
\* state over the time until the substitution is fully enforced (so a longer
\* enforcement never lowers the total).
OptionScoresFoldDurations ==
    stateCall.op = "evaluate_options" =>
        \A r \in DOMAIN stateCall.before :
            /\ ScoreOfRegion(stateCall.score_addition, r)
                  = stateCall.pso_addition[r]
                      + stateCall.before[r] * stateCall.duration.single_value
            /\ ScoreOfRegion(stateCall.score_substitution, r)
                  = stateCall.pso_substitution[r]
                      + stateCall.before[r] * stateCall.till_state_substitution[r]

\* ---------------------------------------------------------------------------
\* Adjuster: the two cooldown adjustments
\* ---------------------------------------------------------------------------
\* C24. The two cooldown adjustments agree: for every timestamp of an unmet
\* change, last_scheduled_scaling_action_ts and cooldown_period the
\* soft-adjustment step and the final-selection step compute the same
\* timestamp, and the deltas written for one event (the soft-adjustment
\* delta and the chosen plan's delta) are written at the same timestamp.
CooldownAdjustmentsAgree ==
    /\ \A ts \in 0..AdjMaxTs, last_ts \in 0..AdjMaxTs, cooldown \in 0..MaxCooldown :
          SoftAdjustmentTimestamp(ts, last_ts, cooldown)
            = BestOptionTimestamp(ts, last_ts, cooldown)
    /\ lastIteration.evaluated => lastIteration.soft_ts = lastIteration.best_ts
    /\ \A d1, d2 \in timeline_of_deltas : d1.event = d2.event => d1.ts = d2.ts

\* both deltas of an event were written, at a timestamp the cooldown shifted
WitnessCooldownAdjustmentsAgree ==
    /\ lastIteration.evaluated
    /\ lastIteration.soft_ts # lastIteration.ts
    /\ \E d1, d2 \in timeline_of_deltas :
          /\ d1.event = lastIteration.event /\ d2.event = lastIteration.event
          /\ d1.delta = "soft" /\ d2.delta # "soft"

\* ---------------------------------------------------------------------------
\* PriceScoreCalculator: the price
\* ---------------------------------------------------------------------------
\* the call was made for a container type of the catalog
ScoredKnownContainerType ==
    /\ scoreCall.op = "score"
    /\ scoreCall.container_name \in DOMAIN scoreCall.catalog

\* C31. For a container type of its catalog the price score calculator
\* returns the raw metric duration_in_hours x containers_count x
\* price_per_hour and a score built from that value; the value is 0 when the
\* duration or the count is 0 and does not decrease when a factor grows.
PriceIsProductOfFactors ==
    /\ ScoredKnownContainerType =>
          /\ scoreCall.raised = ""
          /\ scoreCall.price
                = scoreCall.duration_h * scoreCall.containers_count
                    * scoreCall.catalog[scoreCall.container_name]
          /\ scoreCall.score = BuildScore(scoreCall.price)
          /\ (scoreCall.duration_h = 0 \/ scoreCall.containers_count = 0)
                => scoreCall.price = 0
    /\ \A c \in Containers, p1, p2 \in 1..MaxPrice,
          d1, d2 \in 0..MaxDurationH, n1, n2 \in 0..MaxContainersCount :
          (p1 <= p2 /\ d1 <= d2 /\ n1 <= n2) =>
              PriceScore([x \in {c} |-> p1], c, d1, n1).price
                <= PriceScore([x \in {c} |-> p2], c, d2, n2).price

\* 2 hours, 2 containers at 2 per hour: 8
WitnessPriceIsProduct ==
    /\ ScoredKnownContainerType
    /\ scoreCall.duration_h = 2
    /\ scoreCall.containers_count = 2
    /\ scoreCall.catalog[scoreCall.container_name] = 2
    /\ scoreCall.price = 8

\* ---------------------------------------------------------------------------
\* Adjuster: infeasible plans, remaining demand, earlier events
\* ---------------------------------------------------------------------------
\* C35. When the addition score and the substitution score are both marked
\* is_worst, neither plan's delta is written to the timeline for the event.
BothWorstWritesNeither ==
    (lastIteration.evaluated
        /\ lastIteration.score_addition.is_worst
        /\ lastIteration.score_substitution.is_worst) =>
        /\ WrittenForLastEvent("addition") = {}
        /\ WrittenForLastEvent("substitution") = {}

\* a positive change is left unaccommodated in some region
PositiveDemandLeft(unmet_per_region) ==
    \E r \in DOMAIN unmet_per_region :
        \E s \in DOMAIN unmet_per_region[r] : unmet_per_region[r][s] > 0

\* C36. The options are evaluated for an event only if a positive demand
\* remains after the soft adjustment: the soft adjustment returns, and the
\* addition and the substitution option are evaluated exactly when some
\* change left unaccommodated in some region is positive.
EvaluatedOnlyForPositiveDemand ==
    stateCall.op = "compute_soft_adjustment" =>
        /\ stateCall.raised = ""
        /\ stateCall.evaluated <=> PositiveDemandLeft(stateCall.unmet_per_region)

\* C37. Events with a timestamp earlier than cur_timestamp are skipped: no
\* soft adjustment, no evaluation of the options and no write to the
\* timeline; the next event is requested all the same.
EarlierEventsSkipped ==
    /\ \A d \in timeline_of_deltas :
          timeline_of_unmet_changes[d.event] >= cur_timestamp
    /\ (lastIteration.ts # NoTs /\ lastIteration.ts < cur_timestamp) =>
          /\ ~lastIteration.handled
          /\ ~lastIteration.evaluated
          /\ lastIteration.soft_ts = NoTs
          /\ lastIteration.best_ts = NoTs
    /\ pc = "while" => unmet_pos = Len(processed) + 1
    /\ pc = "done" => processed = timeline_of_unmet_changes

\* an earlier event was skipped and the event after it was handled
WitnessEarlierEventSkipped ==
    /\ pc = "done"
    /\ Len(processed) = 2
    /\ processed[1] < cur_timestamp
    /\ processed[2] >= cur_timestamp
    /\ \A d \in timeline_of_deltas : d.event = 2
    /\ timeline_of_deltas # {}

\* ---------------------------------------------------------------------------
\* GeneralizedDelta without a container delta
\* ---------------------------------------------------------------------------
\* C38. enforce and till_full_enforcement are defined for every
\* GeneralizedDelta the constructor accepts: for a delta with a None
\* container delta the call returns a schedule, possibly empty, and does
\* not fail.
EntitiesOnlyDeltaEnforced ==
    (lastCall.op # "none" /\ gd.container_group_delta.none) => ~lastCall.raised

\* ---------------------------------------------------------------------------
\* LongestLivingFirstQueue and attempt_fan_in
\* ---------------------------------------------------------------------------
CumulativeTimes(reqs) == [i \in DOMAIN reqs |-> reqs[i].cumulative_time]

LongestLiving(reqs, req) ==
    IF reqs = <<>>
    THEN req.none
    ELSE /\ ~req.none
         /\ \A i \in DOMAIN reqs : reqs[i].cumulative_time <= req.cumulative_time

\* C32: after any sequence of insert, take, remove_by_id and
\* add_cumulative_time, attempt_take and take return a request with the
\* largest cumulative_time of the queue (None on an empty queue), attempt_take
\* leaves the queue as it was, and sorted_times_ascending holds the cumulative
\* times of the queued requests in the order of the queue.
LongestLivingFirstKept ==
    /\ sorted_times_ascending = CumulativeTimes(requests)
    /\ queueCall.op \in {"attempt_take", "take"} =>
          LongestLiving(queueCall.before, queueCall.result)
    /\ queueCall.op = "attempt_take" => requests = queueCall.before

PartsPresent(reqs, req) ==
    Cardinality({i \in DOMAIN reqs : reqs[i].request_id = req.request_id})

\* C33: attempt_fan_in returns the first-in-line request when it expects at
\* most one reply or when as many requests with its request_id are queued as
\* it expects replies, returns None when the queue is empty or parts are
\* missing, and leaves the queue as it was.
FanInReturnsCompleteRequest ==
    queueCall.op = "attempt_fan_in" =>
        LET first == AttemptTake(queueCall.before)
        IN  /\ requests = queueCall.before
            /\ queueCall.before = <<>> => queueCall.result.none
            /\ queueCall.before # <<>> =>
                  IF \/ first.replies_expected <= 1
                     \/ PartsPresent(queueCall.before, first) = first.replies_expected
                  THEN queueCall.result = first
                  ELSE queueCall.result.none

WitnessFanInWaitsForParts ==
    /\ queueCall.op = "attempt_fan_in"
    /\ Len(requests) = 2
    /\ requests[2].replies_expected = 2
    /\ requests[1].request_id # requests[2].request_id
    /\ queueCall.result.none

\* ---------------------------------------------------------------------------
\* SeasonalLoadModel
\* ---------------------------------------------------------------------------
\* C34: a generate_requests whose month or time unit differs from the one the
\* split across seconds was computed for computes the split anew from the
\* value of the new time unit; the split is reused only when neither differs.
SplitFollowsTimeUnitAndMonth ==
    loadCall.op = "generate_requests" =>
        /\ loadCall.populated <=>
              (\/ loadCall.month # loadCall.before_month
               \/ loadCall.time_unit # loadCall.before_time_unit)
        /\ current_month = loadCall.month
        /\ current_time_unit = loadCall.time_unit
        /\ SumOver(current_means_split_across_seconds,
                   DOMAIN current_means_split_across_seconds)
              = monthly_vals[loadCall.month][loadCall.time_unit + 1]

\* ---------------------------------------------------------------------------
\* RequestsProcessor
\* ---------------------------------------------------------------------------
InProcessing(id) ==
    {i \in DOMAIN in_processing_simultaneous :
        in_processing_simultaneous[i].id = id}

WaitingIn(service) ==
    IF service \in DOMAIN out_of_service THEN out_of_service[service] ELSE <<>>

Waiting(id) ==
    {<<service, i>> \in Services \X RequestObjects :
        /\ i \in DOMAIN WaitingIn(service)
        /\ WaitingIn(service)[i].id = id}

Returned(id) == {i \in DOMAIN returned : returned[i] = id}

SyncPeriodBetweenAdjustments ==
    /\ policyCall.op = "reconcile_state" =>
          IF policyCall.cur_timestamp - policyCall.before > sync_period_timedelta
          THEN last_sync_timestamp = policyCall.cur_timestamp
          ELSE /\ last_sync_timestamp = policyCall.before
               /\ ~policyCall.adjusted
    /\ \A i, j \in DOMAIN adjust_calls :
          i < j => adjust_calls[j] - adjust_calls[i] > sync_period_timedelta

====
